---- MODULE Spec2Model ----
(***************************************************************************)
(* op-txverify: the verification pipeline of core/ (hash engine, calldata  *)
(* decoder, nested-approval assembler) as a state machine.                 *)
(*                                                                         *)
(* Byte strings are sequences of 0..255.  Text that the Go code handles as *)
(* a string is modelled by the parts the code looks at:                    *)
(*   - calldata text  : [pfx, up, bytes, tail]  = pfx times "0x", the hex  *)
(*     digits of bytes (upper-case letters when up), then a tail that is   *)
(*     "" / "odd" (one more hex digit) / "bad" (two non-hex characters);   *)
(*   - address text   : a sequence of tokens, each a ":" separator, a      *)
(*     chain name, or the 0x-hex of 20 bytes (lower-case or checksummed).  *)
(* keccak256 is an injective constructor (Keccak).                         *)
(***************************************************************************)
EXTENDS Integers, Sequences, FiniteSets, TLC

VARIABLES
    input,         \* the SafeTransaction handed to VerifyTransaction
    pc,            \* position inside VerifyTransaction
    tx,            \* VerifyTransaction's local copy of its parameter
    nestedResult,  \* VerifyTransaction's local nestedResult
    result,        \* the *VerificationResult returned (Nil when none)
    err,           \* the error returned ("" when none)
    pin,           \* arguments of a direct call of ParseTransactionData or
                   \* of a hash function
    pout,          \* what that call returned
    registry,      \* the package variables KnownContracts, MulticallAddresses
                   \* and KnownFunctions
    goroutines,    \* the locals of each of several concurrent calls of
                   \* VerifyTransaction
    stack,         \* the active calls of ParseTransactionData, outermost first
    scan           \* the channels, stored parts and goroutines of ScanQRCode

vars == <<input, pc, tx, nestedResult, result, err, pin, pout, registry, goroutines, stack, scan>>

Nil == [nil |-> TRUE]

(***************************************************************************)
(* Bytes and 32-byte words                                                 *)
(***************************************************************************)
Zeros(n) == [i \in 1..n |-> 0]

\* The big-endian 32-byte word of a small natural number.
U256(n) ==
    Zeros(29) \o <<(n \div 65536) % 256, (n \div 256) % 256, n % 256>>

\* output[a:b] of Go (0-based, half open).
Slice(s, a, b) == SubSeq(s, a + 1, b)

\* new(big.Int).SetBytes(w) fits in 24 bits (every length of the model does).
IsSmall(w) == \A i \in 1..(Len(w) - 3) : w[i] = 0

SmallVal(w) ==
    LET n == Len(w) IN (w[n - 2] * 256 + w[n - 1]) * 256 + w[n]

\* Some hex digit of these bytes is a letter (a..f), so that its upper-case
\* spelling differs from its lower-case one.
HasHexLetter(b) ==
    \E i \in 1..Len(b) : (b[i] \div 16) >= 10 \/ (b[i] % 16) >= 10

(***************************************************************************)
(* Calldata text                                                           *)
(***************************************************************************)
EmptyStr == [pfx |-> 0, up |-> FALSE, bytes |-> <<>>, tail |-> ""]

\* "0x" + hex.EncodeToString(b)
HexEncode0x(b) == [pfx |-> 1, up |-> FALSE, bytes |-> b, tail |-> ""]

\* strings.TrimPrefix(s, "0x")
TrimPrefix0x(s) == IF s.pfx > 0 THEN [s EXCEPT !.pfx = s.pfx - 1] ELSE s

\* "0x" + s
Prepend0x(s) == [s EXCEPT !.pfx = s.pfx + 1]

TailLen(s) == CASE s.tail = "odd" -> 1 [] s.tail = "bad" -> 2 [] OTHER -> 0

\* len(s)
StrLen(s) == 2 * s.pfx + 2 * Len(s.bytes) + TailLen(s)

\* hex.DecodeString(s): the bytes, or an error on an odd length or a
\* character that is no hex digit ("0x" holds the non-digit x).
HexDecodeString(s) ==
    IF s.pfx > 0 \/ s.tail # ""
    THEN [ok |-> FALSE]
    ELSE [ok |-> TRUE, v |-> s.bytes]

(***************************************************************************)
(* Address text                                                            *)
(***************************************************************************)
Sep == [k |-> "sep"]
ChainName(n) == [k |-> "name", v |-> n]
\* common.Address.Hex(): the checksummed 0x-hex of 20 bytes.
AddressHex(b) == <<[k |-> "hex", b |-> b, lc |-> FALSE]>>

\* strings.ToLower
ToLower(s) ==
    [i \in DOMAIN s |-> IF s[i].k = "hex" THEN [s[i] EXCEPT !.lc = TRUE] ELSE s[i]]

\* strings.Index(address, ":"), 0 when there is none (1-based otherwise).
IndexOfSep(s) ==
    IF \E i \in DOMAIN s : s[i] = Sep
    THEN CHOOSE i \in DOMAIN s : s[i] = Sep /\ \A j \in 1..(i - 1) : s[j] # Sep
    ELSE 0

StripChainPrefix(address) ==
    LET idx == IndexOfSep(address) IN
    IF idx # 0 THEN SubSeq(address, idx + 1, Len(address)) ELSE address

ZeroAddress == Zeros(20)

\* common.HexToAddress: the 20 bytes of a text that starts with 0x-hex; a
\* text that starts with a chain name decodes no byte and gives the zero
\* address (Hex2Bytes drops the decode error).
HexToAddress(s) ==
    IF Len(s) > 0 /\ s[1].k = "hex" THEN s[1].b ELSE ZeroAddress

(***************************************************************************)
(* Registries (core/constants.go)                                          *)
(***************************************************************************)
MainnetChainID == 1
OPMainnetChainID == 10
\* The chain id the test of getNetworkInfo names for "base"; its declaration
\* is not among the sources.
BaseMainnetChainID == 8453

SafeMultisendAddress ==
    <<161, 218, 190, 243, 59, 59, 130, 199, 129, 75, 109, 130, 167, 158, 80, 244, 172, 68, 16, 43>>
SafeMultisendCallOnly141 ==
    <<150, 65, 215, 100, 252, 19, 200, 182, 36, 192, 68, 48, 199, 53, 108, 28, 124, 129, 2, 226>>
Multicall3Address ==
    <<202, 17, 189, 224, 89, 119, 179, 99, 17, 103, 2, 136, 98, 190, 42, 23, 57, 118, 202, 17>>
USDCMainnetAddress ==
    <<160, 184, 105, 145, 198, 33, 139, 54, 193, 209, 157, 74, 46, 158, 176, 206, 54, 6, 235, 72>>
OPTokenAddress ==
    <<66, 0, 0, 0, 0, 0, 0, 0, 0, 0, 0, 0, 0, 0, 0, 0, 0, 0, 0, 66>>
SuperfluidOP ==
    <<24, 40, 191, 240, 139, 210, 68, 247, 153, 14, 221, 205, 155, 25, 204, 101, 75, 51, 205, 180>>
OptimismGovernor ==
    <<205, 242, 127, 16, 119, 37, 152, 143, 34, 97, 206, 34, 86, 189, 252, 222, 139, 56, 43, 16>>
OPGrants1 ==
    <<37, 1, 196, 119, 208, 163, 85, 69, 163, 135, 170, 74, 62, 238, 66, 146, 169, 168, 179, 240>>
OPGrants2 ==
    <<25, 121, 60, 120, 36, 190, 112, 236, 88, 187, 103, 60, 164, 45, 39, 121, 209, 37, 129, 190>>
\* Referenced by parseMulticall; its declaration is not among the sources.
Multicall3Delegatecall ==
    <<147, 220, 72, 9, 64, 88, 93, 153, 97, 191, 206, 171, 88, 18, 79, 253, 61, 96, 247, 106>>

ContractInfo(a, n, d) == [addr |-> a, Name |-> n, Decimals |-> d]

\* The initial value of KnownContracts[chainID], as the set of its entries.
InitialKnownContracts(chainID) ==
    CASE chainID = MainnetChainID ->
           { ContractInfo(SafeMultisendAddress, "GNOSIS SAFE MULTISEND", 0),
             ContractInfo(Multicall3Address, "MULTICALL3", 0),
             ContractInfo(USDCMainnetAddress, "USDC", 6) }
      [] chainID = OPMainnetChainID ->
           { ContractInfo(SafeMultisendAddress, "GNOSIS SAFE MULTISEND CALL ONLY", 0),
             ContractInfo(SafeMultisendCallOnly141, "GNOSIS SAFE MULTISEND CALL ONLY", 0),
             ContractInfo(Multicall3Address, "MULTICALL3", 0),
             ContractInfo(OPTokenAddress, "OP TOKEN", 18),
             ContractInfo(SuperfluidOP, "SUPERFLUID OP", 18),
             ContractInfo(OptimismGovernor, "OPTIMISM GOVERNOR", 0),
             ContractInfo(OPGrants1, "OP GRANTS 1 (3F0)", 0),
             ContractInfo(OPGrants2, "OP GRANTS 2 (1BE)", 0) }
      [] OTHER -> {}

\* KnownContracts[chainID]: the entries of the chain, none for a chain that
\* is no key of the map.
KnownContracts(chainID) ==
    IF chainID \in DOMAIN registry.KnownContracts
    THEN registry.KnownContracts[chainID]
    ELSE {}

\* A lookup that searches the entries of every chain.
GetKnownContractAnyChain(address, chainID) ==
    LET normalizedAddr == ToLower(address)
        hits == { e \in UNION { registry.KnownContracts[c] :
                                   c \in DOMAIN registry.KnownContracts } :
                      ToLower(AddressHex(e.addr)) = normalizedAddr }
    IN  IF hits = {}
        THEN [ok |-> FALSE, info |-> ContractInfo(ZeroAddress, "", 0)]
        ELSE [ok |-> TRUE, info |-> CHOOSE e \in hits : TRUE]

\* GetKnownContract: [ok, info]; the key is the lower-cased address text.
GetKnownContract(address, chainID) ==
    LET normalizedAddr == ToLower(address)
        hits == { e \in KnownContracts(chainID) :
                      ToLower(AddressHex(e.addr)) = normalizedAddr }
    IN  IF hits = {}
        THEN [ok |-> FALSE, info |-> ContractInfo(ZeroAddress, "", 0)]
        ELSE [ok |-> TRUE, info |-> CHOOSE e \in hits : TRUE]

\* The initial value of MulticallAddresses[chainID], as the set of its
\* (lower-cased) keys.
InitialMulticallAddresses(chainID) ==
    CASE chainID = MainnetChainID ->
           { ToLower(AddressHex(SafeMultisendAddress)),
             ToLower(AddressHex(Multicall3Address)) }
      [] chainID = OPMainnetChainID ->
           { ToLower(AddressHex(SafeMultisendAddress)),
             ToLower(AddressHex(SafeMultisendCallOnly141)),
             ToLower(AddressHex(Multicall3Address)) }
      [] OTHER -> {}

\* MulticallAddresses[chainID].
MulticallAddresses(chainID) ==
    IF chainID \in DOMAIN registry.MulticallAddresses
    THEN registry.MulticallAddresses[chainID]
    ELSE {}

TokenFunctions ==
    {"transfer", "transferFrom", "approve", "increaseAllowance", "decreaseAllowance"}

(***************************************************************************)
(* ABI types, and the function registry built by init()                    *)
(***************************************************************************)
TAddress == [k |-> "address"]
TUint(bits) == [k |-> "uint", bits |-> bits]
TBool == [k |-> "bool"]
TBytes32 == [k |-> "fixed"]
TBytes == [k |-> "bytes"]
TString == [k |-> "string"]
TSlice(e) == [k |-> "slice", e |-> e]
TTuple(c) == [k |-> "tuple", c |-> c]
Arg(name, type) == [Name |-> name, Type |-> type]

SafeMultisendSig == "multiSend(bytes transactions)"
Aggregate3Sig == "aggregate3((address target,bool allowFailure,bytes callData)[] calls)"
\* Referenced by parseMulticall; its declaration is not among the sources.
Aggregate3ValueSig ==
    "aggregate3Value((address target,bool allowFailure,uint256 value,bytes callData)[] calls)"

FunctionInfo(name, sig, id, inputs) ==
    [Name |-> name, Signature |-> sig, ID |-> id, Inputs |-> inputs]

\* The entries init() derives from KnownSignatures whose parameters are
\* elementary types: name, signature, selector (first four bytes of the
\* keccak256 of the canonical signature) and inputs.
ElementaryFunctions ==
    { FunctionInfo("transfer", "transfer(address to,uint256 amount)",
                   <<169, 5, 156, 187>>,
                   <<Arg("to", TAddress), Arg("amount", TUint(256))>>),
      FunctionInfo("transferFrom", "transferFrom(address from,address to,uint256 amount)",
                   <<35, 184, 114, 221>>,
                   <<Arg("from", TAddress), Arg("to", TAddress), Arg("amount", TUint(256))>>),
      FunctionInfo("approve", "approve(address spender,uint256 amount)",
                   <<9, 94, 167, 179>>,
                   <<Arg("spender", TAddress), Arg("amount", TUint(256))>>),
      FunctionInfo("increaseAllowance", "increaseAllowance(address spender,uint256 amount)",
                   <<57, 80, 147, 81>>,
                   <<Arg("spender", TAddress), Arg("amount", TUint(256))>>),
      FunctionInfo("decreaseAllowance", "decreaseAllowance(address spender,uint256 amount)",
                   <<164, 87, 194, 215>>,
                   <<Arg("spender", TAddress), Arg("amount", TUint(256))>>),
      FunctionInfo("approveHash", "approveHash(bytes32 hashToApprove)",
                   <<212, 217, 189, 205>>,
                   <<Arg("hashToApprove", TBytes32)>>),
      FunctionInfo("multiSend", SafeMultisendSig,
                   <<141, 128, 255, 10>>,
                   <<Arg("transactions", TBytes)>>),
      FunctionInfo("callAgreement",
                   "callAgreement(address agreementClass, bytes callData, bytes userData)",
                   <<57, 37, 93, 91>>,
                   <<Arg("agreementClass", TAddress), Arg("callData", TBytes),
                     Arg("userData", TBytes)>>),
      FunctionInfo("createVestingScheduleFromAmountAndDuration",
                   "createVestingScheduleFromAmountAndDuration(address superToken, address receiver, uint256 totalAmount, uint32 totalDuration, uint32 startDate, uint32 cliffPeriod, uint32 claimPeriod)",
                   <<225, 83, 82, 49>>,
                   <<Arg("superToken", TAddress), Arg("receiver", TAddress),
                     Arg("totalAmount", TUint(256)), Arg("totalDuration", TUint(32)),
                     Arg("startDate", TUint(32)), Arg("cliffPeriod", TUint(32)),
                     Arg("claimPeriod", TUint(32))>>),
      FunctionInfo("propose",
                   "propose(address[] targets, uint256[] values, bytes[] calldatas, string description, uint8 proposalType)",
                   <<154, 121, 1, 142>>,
                   <<Arg("targets", TSlice(TAddress)), Arg("values", TSlice(TUint(256))),
                     Arg("calldatas", TSlice(TBytes)), Arg("description", TString),
                     Arg("proposalType", TUint(8))>>) }

\* The two struct-array entries.  The signature parser these need (one that
\* reads the tuple) is not among the sources; they follow the signatures and
\* the struct fields parseMulticall reads.
AggregateFunctions ==
    { FunctionInfo("aggregate3", Aggregate3Sig,
                   <<130, 173, 86, 203>>,
                   <<Arg("calls", TSlice(TTuple(<<Arg("target", TAddress),
                                                  Arg("allowFailure", TBool),
                                                  Arg("callData", TBytes)>>)))>>),
      FunctionInfo("aggregate3Value", Aggregate3ValueSig,
                   <<23, 77, 234, 113>>,
                   <<Arg("calls", TSlice(TTuple(<<Arg("target", TAddress),
                                                  Arg("allowFailure", TBool),
                                                  Arg("value", TUint(256)),
                                                  Arg("callData", TBytes)>>)))>>) }

\* KnownFunctions as init() leaves it, as the set of its values; the key of
\* an entry is the lower-case hex of its ID.
InitialKnownFunctions == ElementaryFunctions \cup AggregateFunctions

\* The package variables once init() has run.
StartupRegistry ==
    [KnownContracts |->
         [chainID \in {MainnetChainID, OPMainnetChainID} |-> InitialKnownContracts(chainID)],
     MulticallAddresses |->
         [chainID \in {MainnetChainID, OPMainnetChainID} |-> InitialMulticallAddresses(chainID)],
     KnownFunctions |-> InitialKnownFunctions]

KnownFunctions == registry.KnownFunctions

\* The lookup keyed by the first six characters only.
LookupFunctionShortKey(cleanData) ==
    LET hits == { f \in KnownFunctions :
                      /\ cleanData.pfx = 0
                      /\ Len(cleanData.bytes) >= 4
                      /\ SubSeq(cleanData.bytes, 1, 3) = SubSeq(f.ID, 1, 3) }
    IN  IF hits = {}
        THEN [ok |-> FALSE]
        ELSE [ok |-> TRUE, info |-> CHOOSE f \in hits : TRUE]

\* KnownFunctions[cleanData[:8]] for a cleanData of at least 8 characters.
LookupFunction(cleanData) ==
    LET hits == { f \in KnownFunctions :
                      /\ cleanData.pfx = 0
                      /\ Len(cleanData.bytes) >= 4
                      /\ SubSeq(cleanData.bytes, 1, 4) = f.ID
                      /\ ~(cleanData.up /\ HasHexLetter(f.ID)) }
    IN  IF hits = {}
        THEN [ok |-> FALSE]
        ELSE [ok |-> TRUE, info |-> CHOOSE f \in hits : TRUE]

(***************************************************************************)
(* abi.Arguments.Unpack of go-ethereum, as parseArguments uses it          *)
(***************************************************************************)
Fail == [ok |-> FALSE]
Ok(v) == [ok |-> TRUE, v |-> v]

RECURSIVE isDynamicType(_)
isDynamicType(t) ==
    CASE t.k = "tuple" -> \E i \in DOMAIN t.c : isDynamicType(t.c[i].Type)
      [] t.k \in {"string", "bytes", "slice"} -> TRUE
      [] OTHER -> FALSE

RECURSIVE getTypeSize(_)
getTypeSize(t) ==
    IF t.k = "tuple" /\ ~isDynamicType(t)
    THEN LET RECURSIVE Sum(_)
             Sum(i) == IF i = 0 THEN 0 ELSE Sum(i - 1) + getTypeSize(t.c[i].Type)
         IN  Sum(Len(t.c))
    ELSE 32

\* lengthPrefixPointsTo: where a dynamic value starts, and its length.
lengthPrefixPointsTo(index, output) ==
    LET w == Slice(output, index, index + 32) IN
    IF ~IsSmall(w) \/ SmallVal(w) + 32 > Len(output)
    THEN Fail
    ELSE LET offsetEnd == SmallVal(w) + 32
             lw == Slice(output, offsetEnd - 32, offsetEnd)
         IN  IF ~IsSmall(lw) \/ offsetEnd + SmallVal(lw) > Len(output)
             THEN Fail
             ELSE [ok |-> TRUE, start |-> offsetEnd, length |-> SmallVal(lw)]

\* tuplePointsTo: where a dynamic tuple starts.
tuplePointsTo(index, output) ==
    LET w == Slice(output, index, index + 32) IN
    IF ~IsSmall(w) \/ SmallVal(w) + 32 > Len(output)
    THEN Fail
    ELSE Ok(SmallVal(w))

RECURSIVE toGoType(_, _, _)
RECURSIVE forEachUnpack(_, _, _, _, _)
RECURSIVE unpackFields(_, _, _, _, _)

\* One value of type t at byte offset index of output.
toGoType(index, t, output) ==
    IF index + 32 > Len(output)
    THEN Fail
    ELSE
    LET returnOutput == Slice(output, index, index + 32) IN
    CASE t.k = "tuple" ->
           IF isDynamicType(t)
           THEN LET p == tuplePointsTo(index, output) IN
                IF ~p.ok THEN Fail
                ELSE unpackFields(t.c, Slice(output, p.v, Len(output)), 1, 0, <<>>)
           ELSE unpackFields(t.c, Slice(output, index, Len(output)), 1, 0, <<>>)
      [] t.k = "slice" ->
           LET lp == lengthPrefixPointsTo(index, output) IN
           IF ~lp.ok THEN Fail
           ELSE LET rest == Slice(output, lp.start, Len(output)) IN
                IF 32 * lp.length > Len(rest) THEN Fail
                ELSE forEachUnpack(t, rest, 0, lp.length, <<>>)
      [] t.k \in {"bytes", "string"} ->
           LET lp == lengthPrefixPointsTo(index, output) IN
           IF ~lp.ok THEN Fail
           ELSE Ok([ty |-> t.k, b |-> Slice(output, lp.start, lp.start + lp.length)])
      [] t.k = "uint" ->
           IF t.bits <= 64 /\ \E i \in 1..(32 - t.bits \div 8) : returnOutput[i] # 0
           THEN Fail
           ELSE Ok([ty |-> "int", bits |-> t.bits, w |-> returnOutput])
      [] t.k = "bool" ->
           IF (\E i \in 1..31 : returnOutput[i] # 0) \/ returnOutput[32] > 1
           THEN Fail
           ELSE Ok([ty |-> "bool", v |-> (returnOutput[32] = 1)])
      [] t.k = "address" ->
           Ok([ty |-> "address", b |-> SubSeq(returnOutput, 13, 32)])
      [] t.k = "fixed" ->
           Ok([ty |-> "fixed", b |-> returnOutput])

\* The size elements of a slice, from offset start on.
forEachUnpack(t, output, start, size, acc) ==
    IF Len(acc) = size
    THEN Ok([ty |-> "slice", e |-> acc])
    ELSE LET r == toGoType(start, t.e, output) IN
         IF ~r.ok THEN Fail
         ELSE forEachUnpack(t, output, start + getTypeSize(t.e), size, Append(acc, r.v))

\* The fields of a tuple (forTupleUnpack), in order; a static tuple field
\* takes more than one head slot (virtualArgs).
unpackFields(c, output, i, virtualArgs, acc) ==
    IF i > Len(c)
    THEN Ok([ty |-> "struct",
             f |-> [n \in {c[j].Name : j \in DOMAIN c} |->
                       acc[CHOOSE j \in DOMAIN c : c[j].Name = n]]])
    ELSE LET r == toGoType((i - 1 + virtualArgs) * 32, c[i].Type, output)
             extra == IF c[i].Type.k = "tuple" /\ ~isDynamicType(c[i].Type)
                      THEN getTypeSize(c[i].Type) \div 32 - 1
                      ELSE 0
         IN  IF ~r.ok THEN Fail
             ELSE unpackFields(c, output, i + 1, virtualArgs + extra, Append(acc, r.v))

\* method.Inputs.Unpack(data): the values in argument order.
Unpack(inputs, data) ==
    IF Len(data) = 0
    THEN IF Len(inputs) # 0 THEN Fail ELSE Ok(<<>>)
    ELSE LET r == unpackFields(inputs, data, 1, 0, <<>>) IN
         IF ~r.ok THEN Fail
         ELSE Ok([i \in DOMAIN inputs |-> r.v.f[inputs[i].Name]])

(***************************************************************************)
(* ParseDecimals and addCommas                                             *)
(***************************************************************************)
DigitChar(d) == <<"0", "1", "2", "3", "4", "5", "6", "7", "8", "9">>[d + 1]

Repeat(c, n) == [i \in 1..n |-> c]

\* big.Int.String() of the natural number with big-endian bytes b: long
\* division by ten, least significant digit last.
RECURSIVE DivTen(_, _, _)
DivTen(b, i, rem) ==
    IF i > Len(b)
    THEN [q |-> <<>>, r |-> rem]
    ELSE LET cur == rem * 256 + b[i]
             rest == DivTen(b, i + 1, cur % 10)
         IN  [q |-> <<cur \div 10>> \o rest.q, r |-> rest.r]

RECURSIVE BigDigits(_)
BigDigits(b) ==
    IF \A i \in DOMAIN b : b[i] = 0
    THEN <<>>
    ELSE LET d == DivTen(b, 1, 0) IN Append(BigDigits(d.q), DigitChar(d.r))

BigString(b) == IF BigDigits(b) = <<>> THEN <<"0">> ELSE BigDigits(b)

\* addCommas: the digits taken from the right, a comma after every third
\* one except the leftmost, then reversed.
RECURSIVE addCommasLoop(_, _, _, _)
addCommasLoop(s, i, count, res) ==
    IF i < 1
    THEN res
    ELSE LET withDigit == Append(res, s[i])
             withComma == IF (count + 1) % 3 = 0 /\ i # 1
                          THEN Append(withDigit, ",")
                          ELSE withDigit
         IN  addCommasLoop(s, i - 1, count + 1, withComma)

Reverse(s) == [i \in 1..Len(s) |-> s[Len(s) + 1 - i]]

addCommas(s) ==
    IF Len(s) <= 3 THEN s ELSE Reverse(addCommasLoop(s, Len(s), 0, <<>>))

\* A fraction left as it is.
KeepTrailingZeros(f) == f

RECURSIVE TrimTrailingZeros(_)
TrimTrailingZeros(f) ==
    IF Len(f) > 0 /\ f[Len(f)] = "0"
    THEN TrimTrailingZeros(SubSeq(f, 1, Len(f) - 1))
    ELSE f

\* ParseDecimals(amount, decimals), amount given by its big-endian bytes.
ParseDecimals(amount, decimals) ==
    LET str0 == BigString(amount)
        amountStr == IF Len(str0) <= decimals
                     THEN Repeat("0", decimals - Len(str0) + 1) \o str0
                     ELSE str0
        decimalPos == Len(amountStr) - decimals
        intPart == SubSeq(amountStr, 1, decimalPos)
        fracPart == IF decimals > 0
                    THEN SubSeq(amountStr, decimalPos + 1, Len(amountStr))
                    ELSE <<>>
        intPartWithCommas == addCommas(intPart)
        allZeros == \A i \in DOMAIN fracPart : fracPart[i] = "0"
        trimmed == TrimTrailingZeros(fracPart)
    IN  IF decimals > 0
        THEN IF allZeros
             THEN IF Len(fracPart) >= 2
                  THEN intPartWithCommas \o <<".">> \o SubSeq(fracPart, 1, 2)
                  ELSE intPartWithCommas \o <<".">> \o fracPart
                           \o Repeat("0", 2 - Len(fracPart))
             ELSE IF Len(trimmed) > 0
                  THEN intPartWithCommas \o <<".">> \o trimmed
                  ELSE intPartWithCommas
        ELSE intPartWithCommas

(***************************************************************************)
(* parseArguments                                                          *)
(***************************************************************************)
\* []byte and [N]uint8 values are shown as "0x" + hex; the rest stay.
ShowBytes(v) ==
    IF v.ty \in {"bytes", "fixed"}
    THEN [ty |-> "hex", s |-> HexEncode0x(v.b)]
    ELSE v

\* The map entries one unpacked argument contributes, as <<key, value>>
\* pairs; a key is <<name>> or, for an element of a slice, <<name, j>>.
ArgEntries(name, arg) ==
    IF arg.ty = "slice"
    THEN {<<(<<name>>), arg>>}
           \cup { <<(<<name, j - 1>>), ShowBytes(arg.e[j])>> : j \in DOMAIN arg.e }
    ELSE {<<(<<name>>), ShowBytes(arg)>>}

MapOf(entries) ==
    [key \in {e[1] : e \in entries} |-> (CHOOSE e \in entries : e[1] = key)[2]]

\* parseArguments(method, calldata): [ok, v], v the name -> value map.
parseArguments(method, calldata) ==
    LET d == HexDecodeString(TrimPrefix0x(calldata)) IN
    IF ~d.ok THEN Fail
    ELSE IF Len(d.v) < 4 THEN Fail
    ELSE LET inputData == Slice(d.v, 4, Len(d.v))
             args == Unpack(method.Inputs, inputData)
         IN  IF ~args.ok THEN Fail
             ELSE Ok(MapOf(UNION { ArgEntries(method.Inputs[i].Name, args.v[i]) :
                                      i \in DOMAIN method.Inputs }))

(***************************************************************************)
(* ParseTransactionData and parseMulticall                                 *)
(***************************************************************************)
CallData(target, targetName, functionName, rawData, parsedData, subCalls) ==
    [Target |-> target, TargetName |-> targetName, FunctionName |-> functionName,
     FunctionData |-> EmptyStr, RawData |-> rawData, ParsedData |-> parsedData,
     SubCalls |-> subCalls, IsDelegateCall |-> FALSE]

Return(call) == [st |-> "ok", call |-> call]
Error(msg) == [st |-> "err", msg |-> msg]
Panic == [st |-> "panic"]

\* The size of the fixed-size fields of a multiSend record:
\* operation (1) + to (20) + value (32) + dataLength (32).
HeaderLen == 85

\* The length check with >= for >: a record that ends the stream is dropped.
RecordLengthStrict(word, pos, dataLen) ==
    LET low8 == SubSeq(word, 25, 32)
        last3 == SmallVal(low8)
    IN  IF low8[1] >= 128
        THEN [k |-> "panic"]
        ELSE IF IsSmall(low8)
        THEN IF pos + last3 >= dataLen
             THEN [k |-> "break"]
             ELSE [k |-> "take", n |-> last3]
        ELSE [k |-> "break"]

\* What the loop does with a record's 32-byte length field at offset pos
\* (after the header) of a stream of dataLen bytes.  length is
\* big.Int.Uint64(), the low 64 bits; int(length) reads them as a signed
\* 64-bit number; pos+int(length) wraps at 64 bits.
\*   take n : data[pos : pos+n] is the call data
\*   break  : pos+int(length) > len(data)
\*   panic  : pos+int(length) < pos, so slicing data[pos : pos+int(length)]
\*            is out of range
RecordLength(word, pos, dataLen) ==
    LET low8 == SubSeq(word, 25, 32)
        last3 == SmallVal(low8)
    IN  IF low8[1] >= 128
        THEN [k |-> "panic"]
        ELSE IF IsSmall(low8)
        THEN IF pos + last3 > dataLen
             THEN [k |-> "break"]
             ELSE [k |-> "take", n |-> last3]
        ELSE IF SubSeq(low8, 1, 5) = <<127, 255, 255, 255, 255>>
                  /\ last3 + pos >= 16777216
        THEN [k |-> "panic"]
        ELSE [k |-> "break"]

\* The value and found flag of args[key].
HasKey(args, key) == key \in DOMAIN args

RECURSIVE ParseTransactionData(_, _, _)
RECURSIVE parseMulticall(_, _, _, _)
RECURSIVE multiSendLoop(_, _, _, _)
RECURSIVE aggregateLoop(_, _, _, _)

\* Lines 610-615: what the loop does with the decode sub of the record that
\* ends at offset next.
multiSendStep(data, next, chainID, subcalls, sub) ==
    IF sub.st # "ok"
    THEN sub
    ELSE multiSendLoop(data, next, chainID, Append(subcalls, sub.call))

\* Lines 582-607 with the record's length field read as len.
multiSendRecord(data, pos, chainID, subcalls, len) ==
    CASE len.k = "panic" -> Panic
      [] len.k = "break" -> [st |-> "ok", subcalls |-> subcalls]
      [] len.k = "take" ->
           multiSendStep(data, pos + HeaderLen + len.n, chainID, subcalls,
               ParseTransactionData(
                   AddressHex(Slice(data, pos + 1, pos + 21)),
                   HexEncode0x(Slice(data, pos + HeaderLen, pos + HeaderLen + len.n)),
                   chainID))

\* for pos < len(data) { ... } of the multiSend branch: [st, subcalls].
multiSendLoop(data, pos, chainID, subcalls) ==
    IF ~(pos < Len(data))
    THEN [st |-> "ok", subcalls |-> subcalls]
    ELSE IF pos + HeaderLen > Len(data)
    THEN [st |-> "ok", subcalls |-> subcalls]
    ELSE multiSendRecord(data, pos, chainID, subcalls,
             RecordLength(Slice(data, pos + 53, pos + 85), pos + HeaderLen, Len(data)))

\* The aggregate3 loop with the multiSend loop's error handling: an element
\* whose decode is an error ends the decode.
aggregateStepAborting(calls, i, chainID, subcalls, sub) ==
    IF sub.st # "ok"
    THEN sub
    ELSE aggregateLoop(calls, i + 1, chainID, Append(subcalls, sub.call))

\* Lines 682-686: an element whose decode sub is an error is passed over.
aggregateStep(calls, i, chainID, subcalls, sub) ==
    CASE sub.st = "panic" -> Panic
      [] sub.st = "err" -> aggregateLoop(calls, i + 1, chainID, subcalls)
      [] sub.st = "ok" ->
           aggregateLoop(calls, i + 1, chainID, Append(subcalls, sub.call))

\* for _, call := range calls { ... } of the aggregate3 branches.
aggregateLoop(calls, i, chainID, subcalls) ==
    IF i > Len(calls)
    THEN [st |-> "ok", subcalls |-> subcalls]
    ELSE aggregateStep(calls, i, chainID, subcalls,
             ParseTransactionData(AddressHex(calls[i].f.target.b),
                                  HexEncode0x(calls[i].f.callData.b), chainID))

\* The reflection loop that copies each element into a Call3: every
\* element must be a struct with the fields named.
HasCallFields(rawCalls, names) ==
    \A i \in DOMAIN rawCalls.e :
        rawCalls.e[i].ty = "struct" /\ names \subseteq DOMAIN rawCalls.e[i].f

aggregateBranch(args, chainID, names) ==
    IF ~HasKey(args, <<"calls">>)
    THEN Error("missing calls in aggregate3 data")
    ELSE IF args[<<"calls">>].ty # "slice"
    THEN Error("aggregate3 calls must be a slice")
    ELSE IF ~HasCallFields(args[<<"calls">>], names)
    THEN Error("missing field in call")
    ELSE aggregateLoop(args[<<"calls">>].e, 1, chainID, <<>>)

\* Lines 563-616: the multiSend branch.
multiSendBranch(args, chainID) ==
    IF \/ ~HasKey(args, <<"transactions">>)
       \/ args[<<"transactions">>].ty # "hex"
       \/ args[<<"transactions">>].s.pfx = 0
    THEN Error("invalid multiSend data format")
    ELSE IF ~HexDecodeString(TrimPrefix0x(args[<<"transactions">>].s)).ok
    THEN Error("invalid multiSend data")
    ELSE multiSendLoop(HexDecodeString(TrimPrefix0x(args[<<"transactions">>].s)).v,
                       0, chainID, <<>>)

\* parseMulticall: [st, subcalls].
parseMulticall(contractAddress, chainID, functionInfo, args) ==
    LET normalizedAddress == ToLower(contractAddress) IN
    IF \/ normalizedAddress = ToLower(AddressHex(SafeMultisendAddress))
       \/ normalizedAddress = ToLower(AddressHex(SafeMultisendCallOnly141))
    THEN IF functionInfo.Signature = SafeMultisendSig
         THEN multiSendBranch(args, chainID)
         ELSE Error("unsupported function for Safe Multisend contract")
    ELSE IF \/ normalizedAddress = ToLower(AddressHex(Multicall3Address))
            \/ normalizedAddress = ToLower(AddressHex(Multicall3Delegatecall))
    THEN IF functionInfo.Signature = Aggregate3Sig
         THEN aggregateBranch(args, chainID, {"target", "allowFailure", "callData"})
         ELSE IF functionInfo.Signature = Aggregate3ValueSig
         THEN aggregateBranch(args, chainID,
                              {"target", "allowFailure", "value", "callData"})
         ELSE Error("unsupported function for Multicall3 contract")
    ELSE Error("unsupported multicall contract")

\* Lines 337-339: the amount of a token function on a known contract with
\* decimals is rewritten as a decimal text.
Rescaled(parsedArgs, known, functionName) ==
    [key \in DOMAIN parsedArgs |->
        IF /\ key = <<"amount">>
           /\ known.ok
           /\ functionName \in TokenFunctions
           /\ known.info.Decimals > 0
        THEN [ty |-> "text",
              s |-> ParseDecimals(parsedArgs[key].w, known.info.Decimals)]
        ELSE parsedArgs[key]]

\* Lines 343-348 for one argument, contract being GetKnownContract of it.
Annotated(value, contract) ==
    IF value.ty = "address" /\ contract.ok
    THEN [ty |-> "annotated", b |-> value.b, name |-> contract.info.Name]
    ELSE value

\* Lines 342-349: the arguments that are known contracts get their name.
AnnotatedAll(args, chainID) ==
    [key \in DOMAIN args |->
        Annotated(args[key],
                  IF args[key].ty = "address"
                  THEN GetKnownContract(AddressHex(args[key].b), chainID)
                  ELSE [ok |-> FALSE])]

\* The amount rescaling and the address annotation of the parsed map.
Enrich(parsedArgs, known, functionName, chainID) ==
    AnnotatedAll(Rescaled(parsedArgs, known, functionName), chainID)

\* Lines 283-287.
TargetName(to, chainID) ==
    IF GetKnownContract(ToLower(to), chainID).ok
    THEN GetKnownContract(ToLower(to), chainID).info.Name
    ELSE ""

\* Lines 361-372 with the outcome m of parseMulticall.
withSubcalls(to, chainID, functionInfo, m) ==
    IF m.st # "ok"
    THEN m
    ELSE Return(CallData(to, TargetName(to, chainID), functionInfo.Name, EmptyStr, Nil,
                         m.subcalls))

\* Lines 351-381 with the enriched arguments.
dispatchCall(to, chainID, functionInfo, parsedArgs) ==
    LET isMulticallContract == ToLower(to) \in MulticallAddresses(chainID)
        isMulticallFunction ==
            functionInfo.Name \in {"multiSend", "aggregate3", "aggregate3Value"}
    IN  IF isMulticallContract /\ isMulticallFunction
        THEN withSubcalls(to, chainID, functionInfo,
                          parseMulticall(ToLower(to), chainID, functionInfo, parsedArgs))
        ELSE Return(CallData(to, TargetName(to, chainID), functionInfo.Name, EmptyStr,
                             parsedArgs, <<>>))

\* Lines 326-381 with the outcome parsed of parseArguments.
decodeCall(to, data, chainID, functionInfo, parsed) ==
    IF ~parsed.ok
    THEN Return(CallData(to, TargetName(to, chainID), functionInfo.Name, data, Nil, <<>>))
    ELSE dispatchCall(to, chainID, functionInfo,
                      Enrich(parsed.v, GetKnownContract(ToLower(to), chainID),
                             functionInfo.Name, chainID))

\* ParseTransactionData(to, data, chainID, options): [st, call].
ParseTransactionData(to, data, chainID) ==
    LET cleanData == TrimPrefix0x(data) IN
    IF StrLen(cleanData) = 0
    THEN Return(CallData(to, TargetName(to, chainID), "unknown", Prepend0x(data), Nil, <<>>))
    ELSE IF StrLen(cleanData) < 8
    THEN Return(CallData(to, TargetName(to, chainID), "unknown", data, Nil, <<>>))
    ELSE IF ~LookupFunction(cleanData).ok
    THEN Return(CallData(to, TargetName(to, chainID), "unknown", data, Nil, <<>>))
    ELSE decodeCall(to, data, chainID, LookupFunction(cleanData).info,
                    parseArguments(LookupFunction(cleanData).info, Prepend0x(cleanData)))

(***************************************************************************)
(* Hash engine (core/hashing.go)                                           *)
(***************************************************************************)
DomainSeparatorTypehash ==
    <<71, 231, 149, 52, 162, 69, 149, 46, 139, 22, 137, 58, 51, 107, 133, 163,
      217, 234, 159, 168, 197, 115, 243, 216, 3, 175, 185, 42, 121, 70, 146, 24>>
SafeTxTypehash ==
    <<187, 131, 16, 212, 134, 54, 141, 182, 189, 111, 132, 148, 2, 253, 215, 58,
      213, 61, 49, 107, 90, 75, 38, 68, 173, 110, 254, 15, 148, 18, 134, 216>>
\* The two legacy typehashes are used by hashing.go; their declarations are
\* not among the sources.  keccak256("EIP712Domain(address verifyingContract)")
\* and the keccak256 of the SafeTx type with dataGas for baseGas.
DomainSeparatorTypehashOld ==
    <<3, 90, 255, 131, 216, 105, 55, 211, 91, 50, 224, 79, 13, 220, 111, 244,
      105, 41, 14, 239, 47, 27, 105, 45, 138, 129, 92, 137, 64, 77, 71, 73>>
SafeTxTypehashOld ==
    <<20, 212, 97, 188, 116, 18, 54, 126, 146, 70, 55, 179, 99, 199, 191, 41,
      184, 244, 126, 47, 132, 134, 159, 68, 38, 229, 99, 61, 138, 244, 123, 32>>

\* crypto.Keccak256Hash, injective.
Keccak(preimage) == [keccak |-> preimage]
\* hash.Hex() and common.HexToHash, inverse to each other on digests.
HashHex(h) == [hex |-> h]
HexToHash(t) == t.hex

\* A 32-byte slot of an ABI-packed static tuple holding literal bytes; a
\* slot that holds a digest holds the Keccak value itself.
Word(b) == [w |-> b]
AddressWord(a) == Word(Zeros(12) \o a)
\* math.U256Bytes of a big.Int: two's complement for a negative number.
IntWord(n) ==
    IF n >= 0
    THEN Word(U256(n))
    ELSE Word([i \in 1..29 |-> 255] \o SubSeq(U256(16777216 + n), 30, 32))

\* A parser that reads a text that is no version as 0.0.0.
NewVersionLenient(text) ==
    IF "bad" \in DOMAIN text
    THEN Ok(<<0, 0, 0>>)
    ELSE Ok(<<text.maj, text.min, text.pat>>)

\* A safeVersion text is "maj.min.pat" ([maj, min, pat]) or a text that is
\* no version ([bad]).  semver.NewVersion: [ok, v].
NewVersion(text) ==
    IF "bad" \in DOMAIN text
    THEN Fail
    ELSE Ok(<<text.maj, text.min, text.pat>>)

VersionLess(a, b) ==
    \/ a[1] < b[1]
    \/ a[1] = b[1] /\ a[2] < b[2]
    \/ a[1] = b[1] /\ a[2] = b[2] /\ a[3] < b[3]

\* The constraint "< 1.2.0".
version120ConstraintStrict(v) == VersionLess(v, <<1, 2, 0>>)

\* semver.NewConstraint("<= 1.2.0").Check
version120Constraint(v) == VersionLess(v, <<1, 2, 0>>) \/ v = <<1, 2, 0>>
\* semver.NewConstraint("< 1.0.0").Check
version100Constraint(v) == VersionLess(v, <<1, 0, 0>>)

Nibbles(b) ==
    [i \in 1..(2 * Len(b)) |->
        IF i % 2 = 1 THEN b[(i + 1) \div 2] \div 16 ELSE b[i \div 2] % 16]

PairUp(n) == [i \in 1..(Len(n) \div 2) |-> n[2 * i - 1] * 16 + n[2 * i]]

\* common.FromHex: drops one "0x", puts a "0" before an odd number of
\* digits, and keeps the bytes decoded before the first bad character.  The
\* one digit of an "odd" tail is an "a".
FromHex(s) ==
    LET t == TrimPrefix0x(s) IN
    IF t.pfx > 0
    THEN IF TailLen(t) = 1 THEN <<0>> ELSE <<>>
    ELSE IF t.tail = "odd"
    THEN PairUp(<<0>> \o Nibbles(t.bytes) \o <<10>>)
    ELSE t.bytes

\* CalculateDomainHash(tx): [ok, v].
CalculateDomainHash(t) ==
    LET currentVersion == NewVersion(t.SafeVersion) IN
    IF ~currentVersion.ok THEN Fail
    ELSE IF version120Constraint(currentVersion.v)
    THEN Ok(HashHex(Keccak(<<Word(DomainSeparatorTypehashOld),
                             AddressWord(HexToAddress(t.Safe))>>)))
    ELSE Ok(HashHex(Keccak(<<Word(DomainSeparatorTypehash),
                             IntWord(t.Chain),
                             AddressWord(HexToAddress(t.Safe))>>)))

\* A message hash whose dataHash is taken of the raw data of the decoded
\* call instead of tx.Data.
CalculateMessageHashOfCall(t) ==
    LET currentVersion == NewVersion(t.SafeVersion) IN
    IF ~currentVersion.ok THEN Fail
    ELSE
    LET safeTxTypehashToUse == IF version100Constraint(currentVersion.v)
                               THEN SafeTxTypehashOld
                               ELSE SafeTxTypehash
        dataHash == Keccak(FromHex(t.Call.RawData))
    IN  Ok(HashHex(Keccak(<<Word(safeTxTypehashToUse),
                            AddressWord(HexToAddress(t.To)),
                            IntWord(t.Value),
                            dataHash,
                            IntWord(t.Operation % 256),
                            IntWord(t.SafeTxGas),
                            IntWord(t.BaseGas),
                            IntWord(t.GasPrice),
                            AddressWord(HexToAddress(t.GasToken)),
                            AddressWord(HexToAddress(t.RefundReceiver)),
                            IntWord(t.Nonce)>>)))

\* CalculateMessageHash(tx): [ok, v].
CalculateMessageHash(t) ==
    LET currentVersion == NewVersion(t.SafeVersion) IN
    IF ~currentVersion.ok THEN Fail
    ELSE
    LET safeTxTypehashToUse == IF version100Constraint(currentVersion.v)
                               THEN SafeTxTypehashOld
                               ELSE SafeTxTypehash
        dataHash == Keccak(FromHex(t.Data))
    IN  Ok(HashHex(Keccak(<<Word(safeTxTypehashToUse),
                            AddressWord(HexToAddress(t.To)),
                            IntWord(t.Value),
                            dataHash,
                            IntWord(t.Operation % 256),
                            IntWord(t.SafeTxGas),
                            IntWord(t.BaseGas),
                            IntWord(t.GasPrice),
                            AddressWord(HexToAddress(t.GasToken)),
                            AddressWord(HexToAddress(t.RefundReceiver)),
                            IntWord(t.Nonce)>>)))

\* The EIP-712 prefix 0x1901.
Prefix1901 == <<25, 1>>

\* The digest taken over the message hash before the domain hash.
CalculateApproveHashSwapped(t) ==
    LET domainHash == CalculateDomainHash(t)
        messageHash == CalculateMessageHash(t)
    IN  IF ~domainHash.ok THEN Fail
        ELSE IF ~messageHash.ok THEN Fail
        ELSE Ok(HashHex(Keccak(<<Word(Prefix1901),
                                 HexToHash(messageHash.v),
                                 HexToHash(domainHash.v)>>)))

\* CalculateApproveHash(tx): [ok, v].
CalculateApproveHash(t) ==
    LET domainHash == CalculateDomainHash(t)
        messageHash == CalculateMessageHash(t)
    IN  IF ~domainHash.ok THEN Fail
        ELSE IF ~messageHash.ok THEN Fail
        ELSE Ok(HashHex(Keccak(<<Word(Prefix1901),
                                 HexToHash(domainHash.v),
                                 HexToHash(messageHash.v)>>)))

(***************************************************************************)
(* Verification facade and nested-approval assembler (core/verify.go)      *)
(***************************************************************************)
\* The zero CallData of a transaction not yet decoded.
ZeroCall == CallData(<<>>, "", "", EmptyStr, Nil, <<>>)

SafeTransaction(safe, safeVersion, chain, to, value, data, operation, nonce, nested) ==
    [Safe |-> safe, SafeVersion |-> safeVersion, Chain |-> chain, To |-> to,
     Value |-> value, Data |-> data, Operation |-> operation,
     SafeTxGas |-> 0, BaseGas |-> 0, GasPrice |-> 0,
     GasToken |-> AddressHex(ZeroAddress), RefundReceiver |-> AddressHex(ZeroAddress),
     Nonce |-> nonce, Nested |-> nested, Call |-> ZeroCall]

Nested(safe, safeVersion, nonce, data, operation, to) ==
    [Safe |-> safe, SafeVersion |-> safeVersion, Nonce |-> nonce, Data |-> data,
     Operation |-> operation, To |-> to]

\* Lines 128-136: the result of a transaction t with its three hashes.
VerificationResult(t, domainHash, messageHash, approveHash) ==
    IF ~domainHash.ok THEN Error("failed to calculate domain hash")
    ELSE IF ~messageHash.ok THEN Error("failed to calculate message hash")
    ELSE IF ~approveHash.ok THEN Error("failed to calculate approve hash")
    ELSE [st |-> "ok",
          res |-> [Transaction |-> t,
                   DomainHash |-> domainHash.v,
                   MessageHash |-> messageHash.v,
                   ApproveHash |-> approveHash.v,
                   Call |-> t.Call,
                   NestedResult |-> Nil]]

\* Lines 111-125 on the transaction t that carries its call tree.
hashTransaction(t) ==
    VerificationResult(t, CalculateDomainHash(t), CalculateMessageHash(t),
                       CalculateApproveHash(t))

\* Lines 105-109 with the outcome call of ParseTransactionData.
withCall(t, call) ==
    IF call.st = "panic" THEN Panic
    ELSE IF call.st = "err" THEN Error("failed to parse transaction data")
    ELSE hashTransaction([t EXCEPT !.Call = call.call])

\* Lines 104-136 on the transaction t whose To and Safe are stripped.
verifyStripped(t) == withCall(t, ParseTransactionData(t.To, t.Data, t.Chain))

\* verifyTransactionInternal(tx, options): [st, res] / [st, msg] / [st].
verifyTransactionInternal(t) ==
    verifyStripped([t EXCEPT !.To = StripChainPrefix(t.To),
                             !.Safe = StripChainPrefix(t.Safe)])

\* The overwrite without the line that zeroes the value.
SubstitutedKeepingValue(t) ==
    [t EXCEPT !.To = t.Nested.To,
              !.Safe = t.Nested.Safe,
              !.Nonce = t.Nested.Nonce,
              !.Operation = t.Nested.Operation,
              !.Data = t.Nested.Data]

\* The overwrite that takes the safe version from the block as well.
SubstitutedWithVersion(t) ==
    [t EXCEPT !.To = t.Nested.To,
              !.Safe = t.Nested.Safe,
              !.SafeVersion = t.Nested.SafeVersion,
              !.Nonce = t.Nested.Nonce,
              !.Operation = t.Nested.Operation,
              !.Value = 0,
              !.Data = t.Nested.Data]

\* The overwrite of the outer fields, lines 78-83.
Substituted(t) ==
    [t EXCEPT !.To = t.Nested.To,
              !.Safe = t.Nested.Safe,
              !.Nonce = t.Nested.Nonce,
              !.Operation = t.Nested.Operation,
              !.Value = 0,
              !.Data = t.Nested.Data]

(***************************************************************************)
(* Inputs: addresses, versions and ABI-encoded call data                   *)
(***************************************************************************)
MaxValue == 1
MaxNonce == 1
MaxRecords == 2

SafeA == [i \in 1..20 |-> 17]
SafeB == [i \in 1..20 |-> 34]
Recipient == [i \in 1..20 |-> 51]

\* "eth:0x..." and the like.
Prefixed(name, b) == <<ChainName(name), Sep>> \o AddressHex(b)

Version(maj, min, pat) == [maj |-> maj, min |-> min, pat |-> pat]
BadVersion == [bad |-> "latest"]
\* The safeVersion of a transaction that sets none: the empty string.
UnsetVersion == [bad |-> ""]

Pad32(b) == b \o Zeros((32 - (Len(b) % 32)) % 32)
EncBytes(b) == U256(Len(b)) \o Pad32(b)

RECURSIVE Concat(_)
Concat(ss) == IF ss = <<>> THEN <<>> ELSE Head(ss) \o Concat(Tail(ss))

TransferSelector == <<169, 5, 156, 187>>
ApproveHashSelector == <<212, 217, 189, 205>>
MultiSendSelector == <<141, 128, 255, 10>>
Aggregate3Selector == <<130, 173, 86, 203>>
UnknownSelector == <<222, 173, 190, 239>>

EncTransfer(to, amount) == TransferSelector \o Zeros(12) \o to \o U256(amount)
EncApproveHash(h) == ApproveHashSelector \o h
\* One packed multiSend record and the multiSend call of a stream.
Record(to, data) == <<0>> \o to \o U256(0) \o U256(Len(data)) \o data
EncMultiSend(stream) == MultiSendSelector \o U256(32) \o EncBytes(stream)
\* aggregate3 of a sequence of [target, callData].
EncCall3(c) == Zeros(12) \o c.target \o U256(0) \o U256(96) \o EncBytes(c.callData)

RECURSIVE Offsets(_, _, _)
Offsets(calls, i, at) ==
    IF i > Len(calls) THEN <<>>
    ELSE U256(at) \o Offsets(calls, i + 1, at + Len(EncCall3(calls[i])))

EncAggregate3(calls) ==
    Aggregate3Selector \o U256(32) \o U256(Len(calls))
        \o Offsets(calls, 1, 32 * Len(calls))
        \o Concat([i \in DOMAIN calls |-> EncCall3(calls[i])])

TransferData == EncTransfer(Recipient, 1500000)
\* A multiSend call on Multicall3: parseMulticall refuses the function.
RefusedCall == [target |-> Multicall3Address, callData |-> EncMultiSend(<<>>)]
TransferCall == [target |-> USDCMainnetAddress, callData |-> TransferData]

\* The inner transaction T1 and the 32 bytes of its approval digest
\* (keccak256 of 0x1901, its domain hash and its message hash).
T1 ==
    SafeTransaction(AddressHex(SafeA), Version(1, 3, 0), MainnetChainID,
                    AddressHex(USDCMainnetAddress), 0, HexEncode0x(TransferData),
                    0, 0, Nil)
P1 ==
    <<93, 65, 53, 27, 216, 222, 158, 64, 221, 35, 36, 211, 4, 84, 162, 216,
      237, 228, 175, 19, 159, 219, 241, 52, 160, 112, 166, 14, 246, 106, 20, 112>>

RefusedBatchData == EncMultiSend(Record(Multicall3Address, EncMultiSend(<<>>)))
SkippingBatchData == EncAggregate3(<<RefusedCall, TransferCall>>)

\* The (to, data) pairs tried: a plain value transfer, a token transfer, a
\* token transfer sent to batching contracts, a multiSend whose record is
\* refused, an aggregate3 whose first element is refused.
TxCalls ==
    { <<AddressHex(USDCMainnetAddress), EmptyStr>>,
      <<AddressHex(USDCMainnetAddress), HexEncode0x(TransferData)>>,
      <<Prefixed("eth", SafeMultisendAddress), HexEncode0x(TransferData)>>,
      <<Prefixed("eth", SafeMultisendAddress), HexEncode0x(RefusedBatchData)>>,
      <<AddressHex(Multicall3Address), HexEncode0x(SkippingBatchData)>> }

\* The gas and refund fields tried: all zero, or all set.
GasOptions ==
    { [SafeTxGas |-> 0, BaseGas |-> 0, GasPrice |-> 0,
       GasToken |-> AddressHex(ZeroAddress), RefundReceiver |-> AddressHex(ZeroAddress)],
      [SafeTxGas |-> 3, BaseGas |-> 2, GasPrice |-> 1,
       GasToken |-> AddressHex(USDCMainnetAddress),
       RefundReceiver |-> AddressHex(Recipient)] }

WithGas(t, g) ==
    [t EXCEPT !.SafeTxGas = g.SafeTxGas, !.BaseGas = g.BaseGas,
              !.GasPrice = g.GasPrice, !.GasToken = g.GasToken,
              !.RefundReceiver = g.RefundReceiver]

FlatInputs ==
    { WithGas(SafeTransaction(safe, version, chain, call[1], value, call[2],
                              operation, nonce, Nil), gas) :
        safe \in {AddressHex(SafeA), Prefixed("oeth", SafeA)},
        version \in {Version(1, 3, 0), BadVersion},
        chain \in {MainnetChainID, OPMainnetChainID},
        call \in TxCalls,
        value \in 0..MaxValue,
        operation \in {0, 1},
        nonce \in 0..MaxNonce,
        gas \in GasOptions }

\* The nestedApproval blocks tried with a transaction: none; an approveHash
\* of P1 on the inner safe by the outer safe SafeB; one that repeats the
\* top-level fields; one whose data is a batch the decoder refuses; an
\* approveHash by an outer safe of version 0.1.0.
NestedOptions(t) ==
    {Nil}
      \cup { Nested(Prefixed("eth", SafeB), Version(1, 4, 1), n,
                    HexEncode0x(EncApproveHash(P1)), 0, t.Safe) : n \in 0..MaxNonce }
      \cup { Nested(t.Safe, t.SafeVersion, t.Nonce, t.Data, t.Operation, t.To) }
      \cup { Nested(AddressHex(SafeB), Version(0, 1, 0), 0,
                    HexEncode0x(EncApproveHash(P1)), 0, t.Safe) }
      \cup { Nested(AddressHex(SafeB), Version(1, 3, 0), 0,
                    HexEncode0x(RefusedBatchData), 1,
                    AddressHex(SafeMultisendAddress)) }

\* Transactions that break the data model: an operation that is neither 0
\* nor 1, a negative value, data with an odd digit or a character that is no
\* hex digit at its end.
MalformedInputs ==
    { [T1 EXCEPT !.Operation = 2],
      [T1 EXCEPT !.Operation = 256],
      [T1 EXCEPT !.Value = -1],
      [T1 EXCEPT !.Data = [HexEncode0x(TransferData) EXCEPT !.tail = "odd"]],
      [T1 EXCEPT !.Data = [HexEncode0x(TransferData) EXCEPT !.tail = "bad"]],
      [T1 EXCEPT !.Data = [HexEncode0x(UnknownSelector) EXCEPT !.tail = "bad"]] }

Inputs ==
    UNION { { [t EXCEPT !.Nested = n] : n \in NestedOptions(t) } : t \in FlatInputs }
      \cup MalformedInputs

(***************************************************************************)
(* VerifyTransaction as a state machine                                    *)
(***************************************************************************)
Init ==
    /\ input \in Inputs
    /\ tx = input
    /\ pc = "start"
    /\ nestedResult = Nil
    /\ result = Nil
    /\ err = ""
    /\ pin = Nil
    /\ pout = Nil
    /\ registry = StartupRegistry
    /\ goroutines = <<>>
    /\ stack = <<>>
    /\ scan = Nil

\* The inner verification run on the overwritten transaction.
InnerVerificationAfterOverwrite(t) == verifyTransactionInternal(Substituted(t))

\* The inner verification, line 72.
InnerVerification(t) == verifyTransactionInternal(t)

\* Lines 73-83 with the outcome inner of the inner verification.
AfterInner(inner) ==
    CASE inner.st = "panic" ->
           /\ pc' = "panicked"
           /\ UNCHANGED <<tx, nestedResult, err>>
      [] inner.st = "err" ->
           /\ pc' = "done"
           /\ err' = "failed to verify nested transaction"
           /\ UNCHANGED <<tx, nestedResult>>
      [] inner.st = "ok" ->
           /\ pc' = "main"
           /\ nestedResult' = inner.res
           /\ tx' = Substituted(tx)
           /\ UNCHANGED err

\* Lines 68-84: verify the inner transaction, then overwrite the outer
\* fields.
CheckNested ==
    /\ pc = "start"
    /\ IF tx.Nested # Nil
       THEN AfterInner(InnerVerification(tx))
       ELSE /\ pc' = "main"
            /\ UNCHANGED <<tx, nestedResult, err>>
    /\ UNCHANGED <<input, result, pin, pout, registry, goroutines, stack, scan>>

\* Lines 88-95 with the outcome main of the main verification.
AfterMain(main) ==
    CASE main.st = "panic" ->
           /\ pc' = "panicked"
           /\ UNCHANGED <<result, err>>
      [] main.st = "err" ->
           /\ pc' = "done"
           /\ err' = main.msg
           /\ UNCHANGED result
      [] main.st = "ok" ->
           /\ pc' = "done"
           /\ result' = [main.res EXCEPT !.NestedResult = nestedResult]
           /\ UNCHANGED err

\* Lines 86-95: verify the main transaction and attach the nested result.
VerifyMain ==
    /\ pc = "main"
    /\ AfterMain(verifyTransactionInternal(tx))
    /\ UNCHANGED <<input, tx, nestedResult, pin, pout, registry, goroutines, stack, scan>>

Next == CheckNested \/ VerifyMain

Spec == Init /\ [][Next]_vars

Succeeded == pc = "done" /\ err = ""

(***************************************************************************)
(* Nested approval: C1 - C5                                                *)
(***************************************************************************)
Wrapped == input.Nested # Nil

\* C1: when VerifyTransaction succeeds on an input with nestedApproval, the
\* result has a nestedResult and the returned transaction's value is 0
\* whatever the input value; without nestedApproval there is no nestedResult.
C1_NestedResultAndZeroValue ==
    Succeeded =>
        /\ Wrapped => result.NestedResult # Nil /\ result.Transaction.Value = 0
        /\ ~Wrapped => result.NestedResult = Nil

C1_Witness ==
    /\ Succeeded /\ Wrapped
    /\ input.Value > 0
    /\ result.Transaction.Value = 0
    /\ result.NestedResult # Nil

\* The 32-byte argument of an approveHash call data, <<>> for other data.
HashArgument(data) ==
    IF /\ data.pfx = 1 /\ data.tail = ""
       /\ Len(data.bytes) = 36
       /\ SubSeq(data.bytes, 1, 4) = ApproveHashSelector
    THEN SubSeq(data.bytes, 5, 36)
    ELSE <<>>

\* bytes are the 32 bytes of the digest: known for the digest of T1, whose
\* bytes are P1; keccak being injective, P1 is the bytes of no other digest.
IsDigest(bytes, digest) ==
    bytes = P1 /\ digest = CalculateApproveHash(T1).v

\* C2: in Wrapped mode VerifyTransaction succeeds only when the hash
\* argument of the outer approveHash call data (nestedApproval.data) is the
\* approvalHash computed for the inner transaction.
C2_OuterApprovesInner ==
    Succeeded /\ Wrapped =>
        IsDigest(HashArgument(input.Nested.Data), nestedResult.ApproveHash)

\* The outer transaction the claim describes, built field by field.
OuterOfInput ==
    [Safe |-> input.Nested.Safe,
     SafeVersion |-> input.SafeVersion,
     Chain |-> input.Chain,
     To |-> input.Nested.To,
     Value |-> 0,
     Data |-> input.Nested.Data,
     Operation |-> input.Nested.Operation,
     SafeTxGas |-> input.SafeTxGas,
     BaseGas |-> input.BaseGas,
     GasPrice |-> input.GasPrice,
     GasToken |-> input.GasToken,
     RefundReceiver |-> input.RefundReceiver,
     Nonce |-> input.Nested.Nonce,
     Nested |-> input.Nested,
     Call |-> input.Call]

\* C3: in Wrapped mode the outer transaction that is decoded and hashed is
\* the input with to, safe, nonce, operation and data taken from
\* nestedApproval and value 0, every other field as in the input.
C3_OuterTransaction ==
    /\ pc = "main" /\ Wrapped => tx = OuterOfInput
    /\ Succeeded /\ Wrapped =>
          LET outer == [OuterOfInput EXCEPT !.To = StripChainPrefix(@),
                                            !.Safe = StripChainPrefix(@)]
          IN  /\ result.Call = ParseTransactionData(outer.To, outer.Data, outer.Chain).call
              /\ result.Transaction = [outer EXCEPT !.Call = result.Call]
              /\ result.DomainHash = CalculateDomainHash(outer).v
              /\ result.MessageHash = CalculateMessageHash(outer).v
              /\ result.ApproveHash = CalculateApproveHash(outer).v

C3_Witness ==
    /\ Succeeded /\ Wrapped
    /\ input.Nested.To # input.To
    /\ input.Nested.Safe # input.Safe
    /\ input.Nested.Nonce # input.Nonce
    /\ input.Nested.Data # input.Data
    /\ input.Value > 0
    /\ input.SafeTxGas > 0
    /\ result.Transaction.SafeTxGas = input.SafeTxGas
    /\ result.Transaction.Nonce = input.Nested.Nonce

\* C4: in Wrapped mode nestedResult is the single-level verification of the
\* input as received: its transaction carries the input's own to, safe,
\* nonce, operation, value and data, its hashes and call tree are those of
\* the inner transaction, and the overwrite of the outer fields leaves it
\* as it was.
C4_NestedResultIsInner ==
    (pc = "main" \/ Succeeded) /\ Wrapped =>
        LET inner == [input EXCEPT !.To = StripChainPrefix(@),
                                   !.Safe = StripChainPrefix(@)]
            r == IF pc = "main" THEN nestedResult ELSE result.NestedResult
        IN  /\ r.Call = ParseTransactionData(inner.To, inner.Data, inner.Chain).call
            /\ r.Transaction = [inner EXCEPT !.Call = r.Call]
            /\ r.DomainHash = CalculateDomainHash(inner).v
            /\ r.MessageHash = CalculateMessageHash(inner).v
            /\ r.ApproveHash = CalculateApproveHash(inner).v
            /\ r.NestedResult = Nil

C4_Witness ==
    /\ Succeeded /\ Wrapped
    /\ input.Value > 0
    /\ result.NestedResult.Transaction.Value = input.Value
    /\ result.NestedResult.Transaction.Nonce # result.Transaction.Nonce
    /\ result.NestedResult.Transaction.Data = input.Data
    /\ result.NestedResult.Call # result.Call

\* C5: when VerifyTransaction succeeds on an input with nestedApproval, the
\* outer approvalHash differs from nestedResult's approvalHash, also when
\* the nestedApproval fields repeat the top-level fields.
C5_OuterHashDiffers ==
    Succeeded /\ Wrapped => result.ApproveHash # result.NestedResult.ApproveHash

(***************************************************************************)
(* Error propagation out of a batch: C7                                    *)
(***************************************************************************)
\* The batches among the inputs, with the subcalls they were built from.
BatchesTried ==
    { [data |-> HexEncode0x(RefusedBatchData), elements |-> <<RefusedCall>>],
      [data |-> HexEncode0x(SkippingBatchData), elements |-> <<RefusedCall, TransferCall>>] }

\* Decoding subcall c alone on this chain raises an error.
SubcallRefused(c, chainID) ==
    ParseTransactionData(AddressHex(c.target), HexEncode0x(c.callData), chainID).st = "err"

ParseTargets ==
    { AddressHex(SafeMultisendAddress),
      AddressHex(SafeMultisendCallOnly141),
      AddressHex(Multicall3Address),
      ToLower(AddressHex(Multicall3Address)),
      AddressHex(USDCMainnetAddress),
      AddressHex(OPTokenAddress),
      ToLower(AddressHex(OPTokenAddress)),
      AddressHex(Recipient) }

\* A selector one bit away from transfer's.
NearMissSelector == <<169, 5, 156, 186>>

WithoutPrefix(s) == [s EXCEPT !.pfx = 0]
UpperCase(s) == [s EXCEPT !.up = TRUE]
WithTail(s, tail) == [s EXCEPT !.tail = tail]

ParseData ==
    { EmptyStr,
      HexEncode0x(<<>>),
      HexEncode0x(SubSeq(UnknownSelector, 1, 3)),
      HexEncode0x(UnknownSelector),
      WithoutPrefix(HexEncode0x(UnknownSelector)),
      UpperCase(HexEncode0x(UnknownSelector)),
      WithTail(HexEncode0x(UnknownSelector), "odd"),
      WithTail(HexEncode0x(UnknownSelector), "bad"),
      HexEncode0x(UnknownSelector \o U256(1)),
      HexEncode0x(NearMissSelector \o Zeros(12) \o Recipient \o U256(1)),
      HexEncode0x(TransferData),
      UpperCase(HexEncode0x(TransferData)),
      HexEncode0x(SubSeq(TransferData, 1, 36)),
      HexEncode0x(EncApproveHash(P1)),
      HexEncode0x(EncMultiSend(<<>>)),
      HexEncode0x(EncMultiSend(Record(USDCMainnetAddress, TransferData))),
      HexEncode0x(RefusedBatchData),
      HexEncode0x(EncAggregate3(<<>>)),
      HexEncode0x(EncAggregate3(<<TransferCall>>)),
      HexEncode0x(SkippingBatchData) }

ParseInput(to, data, chainID, stream) ==
    [to |-> to, data |-> data, chainID |-> chainID, stream |-> stream]

PlainInputs ==
    { ParseInput(to, data, chainID, Nil) :
        to \in ParseTargets, data \in ParseData,
        chainID \in {MainnetChainID, OPMainnetChainID, BaseMainnetChainID} }

\* The records a multiSend stream is made of: a token transfer, a plain
\* value transfer, a call of an unknown function, a batch that is refused.
RecordsTried ==
    { [to |-> USDCMainnetAddress, data |-> TransferData],
      [to |-> Recipient, data |-> <<>>],
      [to |-> Recipient, data |-> UnknownSelector],
      [to |-> Multicall3Address, data |-> EncMultiSend(<<>>)] }

RecordSeqs(n) == UNION { [1..k -> RecordsTried] : k \in 0..n }

PackRecords(records) ==
    Concat([i \in DOMAIN records |-> Record(records[i].to, records[i].data)])

\* Streams of up to MaxRecords whole records, and such streams of fewer
\* records followed by the first cut bytes of one more record.
StreamsTried ==
    { [records |-> rs, partial |-> <<>>] : rs \in RecordSeqs(MaxRecords) }
      \cup UNION { UNION { { [records |-> rs,
                              partial |-> SubSeq(Record(r.to, r.data), 1, cut)] :
                                cut \in 1..(Len(Record(r.to, r.data)) - 1) } :
                            r \in RecordsTried } :
                   rs \in RecordSeqs(MaxRecords - 1) }

StreamInputs ==
    { ParseInput(AddressHex(SafeMultisendAddress),
                 HexEncode0x(EncMultiSend(PackRecords(st.records) \o st.partial)),
                 MainnetChainID, st) : st \in StreamsTried }

\* The elements an aggregate3 / aggregate3Value batch is made of: a token
\* transfer, a call that parseMulticall refuses, a call of an unknown
\* function.
ElementsTried ==
    { TransferCall, RefusedCall,
      [target |-> Recipient, callData |-> UnknownSelector] }

ElementSeqs == UNION { [1..k -> ElementsTried] : k \in 0..MaxRecords }

\* aggregate3Value of a sequence of [target, callData], each with value 0.
Aggregate3ValueSelector == <<23, 77, 234, 113>>
EncCall3Value(c) ==
    Zeros(12) \o c.target \o U256(0) \o U256(0) \o U256(128) \o EncBytes(c.callData)

RECURSIVE OffsetsValue(_, _, _)
OffsetsValue(calls, i, at) ==
    IF i > Len(calls) THEN <<>>
    ELSE U256(at) \o OffsetsValue(calls, i + 1, at + Len(EncCall3Value(calls[i])))

EncAggregate3Value(calls) ==
    Aggregate3ValueSelector \o U256(32) \o U256(Len(calls))
        \o OffsetsValue(calls, 1, 32 * Len(calls))
        \o Concat([i \in DOMAIN calls |-> EncCall3Value(calls[i])])

\* Batches of up to MaxRecords elements sent to Multicall3.
BatchInputs ==
    { ParseInput(AddressHex(Multicall3Address), HexEncode0x(data), MainnetChainID, Nil) :
        data \in { EncAggregate3(calls) : calls \in ElementSeqs }
                   \cup { EncAggregate3Value(calls) : calls \in ElementSeqs } }

\* A multiSend record whose 32-byte length field is word, whatever the
\* number of data bytes that follow it.
RecordDeclaring(to, word, data) == <<0>> \o to \o U256(0) \o word \o data

\* The length fields tried: 4, 5, 2^63 - 1, 2^63, 2^64 - 1, 2^64, 2^64 + 4
\* and 2^255 + 4.
LengthWordsTried ==
    { U256(4),
      U256(5),
      Zeros(24) \o <<127, 255, 255, 255, 255, 255, 255, 255>>,
      Zeros(24) \o <<128, 0, 0, 0, 0, 0, 0, 0>>,
      Zeros(24) \o <<255, 255, 255, 255, 255, 255, 255, 255>>,
      Zeros(23) \o <<1>> \o Zeros(8),
      Zeros(23) \o <<1>> \o Zeros(7) \o <<4>>,
      <<128>> \o Zeros(30) \o <<4>> }

\* One record that declares each of these lengths in front of four, five
\* or no bytes of data.
LengthCases ==
    { [word |-> w, data |-> d] :
        w \in LengthWordsTried,
        d \in {<<>>, UnknownSelector, UnknownSelector \o <<0>>} }

LengthData(c) ==
    HexEncode0x(EncMultiSend(RecordDeclaring(Recipient, c.word, c.data)))

LengthInputs ==
    { ParseInput(AddressHex(SafeMultisendAddress), LengthData(c), MainnetChainID, Nil) :
        c \in LengthCases }

\* The deepest nesting of batches tried.
MaxNesting == 17

\* The stream inner wrapped in n more multiSend calls, each the only record
\* of the one around it and sent to the Safe MultiSend contract.
RECURSIVE WrapInMultiSend(_, _)
WrapInMultiSend(inner, n) ==
    IF Len(inner) >= 0 /\ n = 0
    THEN inner
    ELSE WrapInMultiSend(Record(SafeMultisendAddress, EncMultiSend(inner)), n - 1)

\* A token transfer inside n nested multiSend calls.
NestedBatch(n) ==
    HexEncode0x(EncMultiSend(WrapInMultiSend(Record(USDCMainnetAddress, TransferData),
                                             n - 1)))

NestingInputs ==
    { ParseInput(AddressHex(SafeMultisendAddress), NestedBatch(n), MainnetChainID, Nil) :
        n \in 1..MaxNesting }

InitParse ==
    /\ pin \in PlainInputs \cup StreamInputs \cup BatchInputs \cup LengthInputs
    /\ pout = Nil
    /\ pc = "parse"
    /\ input = Nil /\ tx = Nil /\ nestedResult = Nil /\ result = Nil /\ err = ""
    /\ registry = StartupRegistry
    /\ goroutines = <<>>
    /\ stack = <<>>
    /\ scan = Nil

Parse ==
    /\ pc = "parse"
    /\ pout' = ParseTransactionData(pin.to, pin.data, pin.chainID)
    /\ pc' = "parsed"
    /\ UNCHANGED <<input, tx, nestedResult, result, err, pin, registry, goroutines, stack, scan>>

NextParse == Parse

SpecParse == InitParse /\ [][NextParse]_vars

(***************************************************************************)
(* Decoder claims: C6, C8, C9                                              *)
(***************************************************************************)
OnAllowList == ToLower(pin.to) \in MulticallAddresses(pin.chainID)

\* The call data is "0x" (or nothing) and then the hex of at least 4 bytes.
WellFormedCall ==
    pin.data.pfx <= 1 /\ pin.data.tail = "" /\ Len(pin.data.bytes) >= 4

SelectorOf(data) == SubSeq(data.bytes, 1, 4)

\* The selector is that of a batching entry point of the contract called.
BatchEntryPoint ==
    \/ /\ ToLower(pin.to) \in { ToLower(AddressHex(SafeMultisendAddress)),
                                ToLower(AddressHex(SafeMultisendCallOnly141)) }
       /\ SelectorOf(pin.data) = MultiSendSelector
    \/ /\ ToLower(pin.to) = ToLower(AddressHex(Multicall3Address))
       /\ \E f \in AggregateFunctions : SelectorOf(pin.data) = f.ID

\* C6: for a target on the chain's batching allow-list and a call data of at
\* least 4 bytes whose selector is no batching entry point of that contract,
\* ParseTransactionData returns an error and no node.
C6_AllowListFailsClosed ==
    pc = "parsed" /\ pin.stream = Nil /\ OnAllowList /\ WellFormedCall /\ ~BatchEntryPoint
        => pout.st = "err"

\* The selector is in the function registry.
Registered(data) == \E f \in KnownFunctions : SelectorOf(data) = f.ID

\* C8: for a target off the chain's batching allow-list and a call data of
\* at least 4 bytes whose selector is not in the function registry,
\* ParseTransactionData returns without error a node named "unknown" whose
\* rawData is the call data as given, with no parsed arguments and no
\* subCalls.
C8_UnknownSelector ==
    /\ pc = "parsed" /\ pin.stream = Nil /\ ~OnAllowList
    /\ pin.data.pfx <= 1 /\ Len(pin.data.bytes) >= 4
    /\ ~Registered(pin.data)
    => /\ pout.st = "ok"
       /\ pout.call.FunctionName = "unknown"
       /\ pout.call.RawData = pin.data
       /\ pout.call.ParsedData = Nil
       /\ pout.call.SubCalls = <<>>
       /\ pout.call.Target = pin.to

C8_Witness ==
    /\ pc = "parsed" /\ pin.stream = Nil /\ ~OnAllowList
    /\ pin.data = HexEncode0x(NearMissSelector \o Zeros(12) \o Recipient \o U256(1))
    /\ pin.to = AddressHex(USDCMainnetAddress)
    /\ pout.st = "ok"
    /\ pout.call.FunctionName = "unknown"
    /\ pout.call.RawData = pin.data

\* The decode of one record's (to, data).
RecordDecode(r) ==
    ParseTransactionData(AddressHex(r.to), HexEncode0x(r.data), pin.chainID)

\* C9: a multiSend whose bytes are N well-formed records (each decodable)
\* gives exactly N subCalls, the i-th the decode of the i-th record; when the
\* stream is cut inside a record, the decode returns without error the
\* subcalls of the whole records before the cut.
C9_MultiSendRecords ==
    /\ pc = "parsed" /\ pin.stream # Nil
    /\ \A i \in DOMAIN pin.stream.records : RecordDecode(pin.stream.records[i]).st = "ok"
    => /\ pout.st = "ok"
       /\ pout.call.FunctionName = "multiSend"
       /\ Len(pout.call.SubCalls) = Len(pin.stream.records)
       /\ \A i \in DOMAIN pin.stream.records :
             pout.call.SubCalls[i] = RecordDecode(pin.stream.records[i]).call

C9_Witness ==
    /\ pc = "parsed" /\ pin.stream # Nil
    /\ Len(pin.stream.records) = MaxRecords - 1
    /\ Len(pin.stream.partial) > HeaderLen
    /\ pout.st = "ok"
    /\ Len(pout.call.SubCalls) = MaxRecords - 1
    /\ pout.call.SubCalls[1].FunctionName = "transfer"

(***************************************************************************)
(* The hash functions called on their own: C10                             *)
(***************************************************************************)
MaxMajor == 1
MaxMinor == 9
MaxPatch == 9

VersionsTried ==
    { Version(maj, min, pat) :
        maj \in 0..MaxMajor, min \in 0..MaxMinor, pat \in 0..MaxPatch }
      \cup {BadVersion, UnsetVersion}

HashInputs ==
    { SafeTransaction(AddressHex(safe), version, chain, AddressHex(USDCMainnetAddress),
                      0, HexEncode0x(TransferData), 0, 0, Nil) :
        safe \in {SafeA, SafeB},
        version \in VersionsTried,
        chain \in {MainnetChainID, OPMainnetChainID} }

InitHash ==
    /\ pin \in HashInputs
    /\ pout = Nil
    /\ pc = "hash"
    /\ input = Nil /\ tx = Nil /\ nestedResult = Nil /\ result = Nil /\ err = ""
    /\ registry = StartupRegistry
    /\ goroutines = <<>>
    /\ stack = <<>>
    /\ scan = Nil

HashDomain ==
    /\ pc = "hash"
    /\ pout' = [fn |-> "domain", r |-> CalculateDomainHash(pin)]
    /\ pc' = "hashed"
    /\ UNCHANGED <<input, tx, nestedResult, result, err, pin, registry, goroutines, stack, scan>>

HashMessage ==
    /\ pc = "hash"
    /\ pout' = [fn |-> "message", r |-> CalculateMessageHash(pin)]
    /\ pc' = "hashed"
    /\ UNCHANGED <<input, tx, nestedResult, result, err, pin, registry, goroutines, stack, scan>>

NextHash == HashDomain \/ HashMessage

SpecHash == InitHash /\ [][NextHash]_vars

\* The order of versions, by the number maj.min.pat read in base 100.
VersionNumber(v) == (v.maj * 100 + v.min) * 100 + v.pat

\* The packed words a digest was taken of.
Preimage(h) == HexToHash(h).keccak

\* C10: domainHash has the legacy form without chainId exactly when the
\* version is <= 1.2.0, messageHash takes the legacy safe-tx typehash
\* exactly when the version is < 1.0.0; so for a version <= 1.2.0 domainHash
\* is the same on every chain, and above it differs between chains.
C10_VersionSelectsScheme ==
    pc = "hashed" /\ pout.r.ok =>
        LET v == VersionNumber(pin.SafeVersion)
            other == [pin EXCEPT !.Chain = IF pin.Chain = MainnetChainID
                                           THEN OPMainnetChainID
                                           ELSE MainnetChainID]
        IN  /\ pout.fn = "domain" /\ v <= 10200 =>
                /\ Preimage(pout.r.v) = <<Word(DomainSeparatorTypehashOld),
                                          AddressWord(HexToAddress(pin.Safe))>>
                /\ CalculateDomainHash(other) = pout.r
            /\ pout.fn = "domain" /\ v > 10200 =>
                /\ Preimage(pout.r.v) = <<Word(DomainSeparatorTypehash),
                                          IntWord(pin.Chain),
                                          AddressWord(HexToAddress(pin.Safe))>>
                /\ CalculateDomainHash(other) # pout.r
            /\ pout.fn = "message" =>
                Preimage(pout.r.v)[1] = Word(IF v < 10000 THEN SafeTxTypehashOld
                                                          ELSE SafeTxTypehash)

C10_Witness ==
    /\ pc = "hashed" /\ pout.fn = "domain" /\ pout.r.ok
    /\ pin.SafeVersion = Version(1, 2, 0)
    /\ Len(Preimage(pout.r.v)) = 2

(***************************************************************************)
(* Hash engine within a verification: C11                                  *)
(***************************************************************************)
\* The transaction as verifyTransactionInternal hashes it (lines 101-102).
Stripped(t) ==
    [t EXCEPT !.To = StripChainPrefix(t.To), !.Safe = StripChainPrefix(t.Safe)]

\* The approval digest of a domain hash and a message hash given as text.
ApprovalOf(domainHash, messageHash) ==
    HashHex(Keccak(<<Word(Prefix1901), HexToHash(domainHash), HexToHash(messageHash)>>))

\* The three hashes of the result r belong together and to the fields of t.
HashesBelongTo(r, t) ==
    /\ r.ApproveHash = ApprovalOf(r.DomainHash, r.MessageHash)
    /\ CalculateDomainHash(t) = Ok(r.DomainHash)
    /\ CalculateMessageHash(t) = Ok(r.MessageHash)
    /\ CalculateDomainHash(r.Transaction) = Ok(r.DomainHash)
    /\ CalculateMessageHash(r.Transaction) = Ok(r.MessageHash)

\* C11: in every successful result the approvalHash is keccak256 of 0x19 0x01,
\* the domainHash and the messageHash of that same result, and the three are
\* computed from the same transaction fields: the outer fields after the
\* substitution for the outer result of a wrapped input, the inner fields
\* for its nestedResult.
C11_ApprovalHashOfOwnHashes ==
    Succeeded =>
        /\ HashesBelongTo(result, Stripped(IF Wrapped THEN Substituted(input) ELSE input))
        /\ Wrapped => HashesBelongTo(result.NestedResult, Stripped(input))

C11_Witness ==
    /\ Succeeded
    /\ Wrapped
    /\ result.NestedResult # Nil
    /\ result.ApproveHash # result.NestedResult.ApproveHash
    /\ result.DomainHash # result.NestedResult.DomainHash
    /\ result.MessageHash # result.NestedResult.MessageHash

(***************************************************************************)
(* Failure of the hash engine: C12, C13                                    *)
(***************************************************************************)
\* C12: CalculateDomainHash and CalculateMessageHash return a digest, not an
\* error, for a transaction whose safeVersion is unset (the empty string),
\* computed with the current typehash and the domain encoding that includes
\* the chain id.
C12_UnsetVersionHashes ==
    pc = "hashed" /\ pin.SafeVersion = UnsetVersion =>
        /\ pout.r.ok
        /\ pout.fn = "domain" =>
               Preimage(pout.r.v) = <<Word(DomainSeparatorTypehash),
                                      IntWord(pin.Chain),
                                      AddressWord(HexToAddress(pin.Safe))>>
        /\ pout.fn = "message" =>
               Preimage(pout.r.v)[1] = Word(SafeTxTypehash)

\* A safeVersion text that semver parses.
Parses(version) == "bad" \notin DOMAIN version

VersionsProbed ==
    {Version(0, 9, 9), Version(1, 2, 0), Version(1, 3, 0), BadVersion, UnsetVersion}

ValidHex(s) == s.pfx <= 1 /\ s.tail = ""

Malformed(t) == t.Operation \notin {0, 1} \/ t.Value < 0 \/ ~ValidHex(t.Data)

\* C14: VerifyTransaction ends with an error and no result whenever the
\* operation of the transaction is neither 0 nor 1, its data is no
\* even-length hex or its value is negative; no such input is coerced into
\* a digest or a call node.
C14_MalformedAborts ==
    pc = "done" /\ Malformed(input) => err # "" /\ result = Nil

(***************************************************************************)
(* Command-line flags: getTxFromFlags, GenerateTransaction up to its first *)
(* request, and getNetworkInfo called on its own: C15, C17                 *)
(***************************************************************************)
\* strings.ToLower on the network names tried.
NetworkToLower(network) ==
    CASE network = "Ethereum" -> "ethereum"
      [] network = "OP" -> "op"
      [] network = "Base" -> "base"
      [] OTHER -> network

\* getNetworkInfo(network): [ok, v |-> [apiURL, chainID]].
getNetworkInfo(network) ==
    LET n == NetworkToLower(network) IN
    CASE n = "ethereum" ->
           Ok([apiURL |-> "https://safe-transaction-mainnet.safe.global",
               chainID |-> MainnetChainID])
      [] n \in {"op", "optimism"} ->
           Ok([apiURL |-> "https://safe-transaction-optimism.safe.global",
               chainID |-> OPMainnetChainID])
      [] OTHER -> Fail

NetworkNames == {"ethereum", "op", "base", "optimism", "Ethereum", "OP", "Base", "sepolia", ""}

\* The --safe texts tried: plain, with one chain prefix, ":leading", with
\* two prefixes, a text without colon and address, the empty text.
AddressTexts ==
    { AddressHex(SafeA),
      Prefixed("eth", SafeA),
      Prefixed("oeth", SafeB),
      <<Sep>> \o AddressHex(SafeA),
      <<ChainName("eth"), Sep>> \o Prefixed("oeth", SafeA),
      <<ChainName("no-colon")>>,
      <<>> }

CliInputs ==
    { [network |-> network, address |-> address, nonce |-> nonce,
       nonceProvided |-> nonceProvided] :
        network \in NetworkNames, address \in AddressTexts,
        nonce \in 0..MaxNonce, nonceProvided \in BOOLEAN }

InitCli ==
    /\ pin \in CliInputs
    /\ input = pin
    /\ pout = Nil
    /\ pc = "flags"
    /\ tx = Nil /\ nestedResult = Nil /\ result = Nil /\ err = ""
    /\ registry = StartupRegistry
    /\ goroutines = <<>>
    /\ stack = <<>>
    /\ scan = Nil

\* getTxFromFlags without --tx, lines 267-275: the required flags and the
\* network names the command line accepts.
ValidateFlags ==
    /\ pc = "flags"
    /\ IF pin.network = "" \/ pin.address = <<>> \/ (pin.nonce = 0 /\ ~pin.nonceProvided)
       THEN /\ pc' = "rejected"
            /\ err' = "either --tx or all of (--network, --safe, --nonce) must be provided"
       ELSE IF pin.network # "ethereum" /\ pin.network # "op" /\ pin.network # "base"
       THEN /\ pc' = "rejected"
            /\ err' = "invalid network"
       ELSE /\ pc' = "validated"
            /\ UNCHANGED err
    /\ UNCHANGED <<input, tx, nestedResult, result, pin, pout, registry, goroutines, stack, scan>>

\* getTxFromFlags, line 278.
StripAddress ==
    /\ pc = "validated"
    /\ pin' = [pin EXCEPT !.address = StripChainPrefix(pin.address)]
    /\ pc' = "stripped"
    /\ UNCHANGED <<input, tx, nestedResult, result, err, pout, registry, goroutines, stack, scan>>

\* Lines 67-73 of GenerateTransaction with the outcome info of
\* getNetworkInfo; the requests to the transaction service follow.
AfterNetworkInfo(info) ==
    IF ~info.ok
    THEN /\ pc' = "rejected"
         /\ err' = "unsupported network"
         /\ UNCHANGED pout
    ELSE /\ pc' = "fetch"
         /\ pout' = [apiURL |-> info.v.apiURL, chainID |-> info.v.chainID,
                     safeAddress |-> AddressHex(HexToAddress(pin.address))]
         /\ UNCHANGED err

\* getTxFromFlags line 281: GenerateTransaction(network, address, nonce).
Generate ==
    /\ pc = "stripped"
    /\ AfterNetworkInfo(getNetworkInfo(pin.network))
    /\ UNCHANGED <<input, tx, nestedResult, result, pin, registry, goroutines, stack, scan>>

\* getNetworkInfo called on its own with a network name.
GetNetworkInfo ==
    /\ pc = "flags"
    /\ pout' = getNetworkInfo(pin.network)
    /\ pc' = "info"
    /\ UNCHANGED <<input, tx, nestedResult, result, err, pin, registry, goroutines, stack, scan>>

NextCli == ValidateFlags \/ StripAddress \/ Generate \/ GetNetworkInfo

SpecCli == InitCli /\ [][NextCli]_vars

\* Everything after the last ':' of an address text.
AfterLastSep(s) ==
    IF \E i \in DOMAIN s : s[i] = Sep
    THEN LET last == CHOOSE i \in DOMAIN s :
                         s[i] = Sep /\ \A j \in (i + 1)..Len(s) : s[j] # Sep
         IN  SubSeq(s, last + 1, Len(s))
    ELSE s

HasSep(s) == \E i \in DOMAIN s : s[i] = Sep

\* C15: StripChainPrefix returns everything after the last ':' of its input
\* and an input without ':' unchanged; its result holds no ':' and
\* stripping it again changes nothing.
C15_StripAfterLastColon ==
    pc \in {"stripped", "fetch"} =>
        /\ pin.address = AfterLastSep(input.address)
        /\ ~HasSep(pin.address)
        /\ StripChainPrefix(pin.address) = pin.address

\* C17: getNetworkInfo returns, without error, a non-empty API URL and the
\* matching chain id for each of "ethereum", "op" and "base", the names the
\* command line accepts, and an error for any other name.
C17_NetworkInfo ==
    /\ pc = "info" /\ pin.network = "ethereum" =>
          pout.ok /\ pout.v.apiURL # "" /\ pout.v.chainID = MainnetChainID
    /\ pc = "info" /\ pin.network = "op" =>
          pout.ok /\ pout.v.apiURL # "" /\ pout.v.chainID = OPMainnetChainID
    /\ pc = "info" /\ pin.network = "base" =>
          pout.ok /\ pout.v.apiURL # "" /\ pout.v.chainID = BaseMainnetChainID
    /\ pc = "info" /\ pin.network \notin {"ethereum", "op", "base"} => ~pout.ok

(***************************************************************************)
(* Contract registry lookup: C19                                           *)
(***************************************************************************)
\* The entries registered for these 20 bytes on a chain.
EntriesOf(bytes, chainID) ==
    { e \in InitialKnownContracts(chainID) : e.addr = bytes }

ChainsTried == {MainnetChainID, OPMainnetChainID, BaseMainnetChainID}

\* C19: the contract lookup is keyed by chain id and address, the address
\* compared without regard to case: GetKnownContract finds an address on a
\* chain exactly when that chain registers it (the OP token on chain 10
\* only), and the targetName of the call node is the name of the entry of
\* the transaction's own chain, or empty when that chain has none.
C19_LookupByChainAndAddress ==
    pc = "parsed" /\ pout.st = "ok" =>
        /\ \A c \in ChainsTried :
              /\ GetKnownContract(pin.to, c).ok <=> EntriesOf(HexToAddress(pin.to), c) # {}
              /\ GetKnownContract(pin.to, c).ok =>
                    GetKnownContract(pin.to, c).info \in EntriesOf(HexToAddress(pin.to), c)
              /\ GetKnownContract(ToLower(pin.to), c) = GetKnownContract(pin.to, c)
        /\ \A c \in ChainsTried :
              GetKnownContract(AddressHex(OPTokenAddress), c).ok <=> c = OPMainnetChainID
        /\ pout.call.TargetName =
              IF EntriesOf(HexToAddress(pin.to), pin.chainID) = {}
              THEN ""
              ELSE (CHOOSE e \in EntriesOf(HexToAddress(pin.to), pin.chainID) : TRUE).Name

C19_Witness ==
    /\ pc = "parsed" /\ pout.st = "ok"
    /\ pin.to = AddressHex(OPTokenAddress)
    /\ pin.chainID = MainnetChainID
    /\ pout.call.TargetName = ""
    /\ GetKnownContract(pin.to, OPMainnetChainID).info.Name = "OP TOKEN"
    /\ GetKnownContract(pin.to, OPMainnetChainID).info.Decimals = 18

(***************************************************************************)
(* ParseDecimals called on its own: C18                                    *)
(***************************************************************************)
MaxAmount == 130
MaxDecimals == 7

\* Every small amount, and amounts around the places where a comma or a
\* digit is added, up to the largest of three bytes.
AmountsTried ==
    0..MaxAmount \cup
    {999, 1000, 1001, 1010, 9999, 10000, 12345, 99999, 100000, 123456, 999999,
     1000000, 1000001, 1234500, 1234567, 1500000, 10000000, 12345678, 16777215}

\* Token decimals: none, up to MaxDecimals, and the 18 of the OP token.
DecimalsTried == 0..MaxDecimals \cup {18}

DecimalInputs ==
    { [amount |-> amount, decimals |-> decimals] :
        amount \in AmountsTried, decimals \in DecimalsTried }

InitDecimals ==
    /\ pin \in DecimalInputs
    /\ pout = Nil
    /\ pc = "render"
    /\ input = Nil /\ tx = Nil /\ nestedResult = Nil /\ result = Nil /\ err = ""
    /\ registry = StartupRegistry
    /\ goroutines = <<>>
    /\ stack = <<>>
    /\ scan = Nil

\* ParseDecimals(big.NewInt(amount), decimals)
Render ==
    /\ pc = "render"
    /\ pout' = ParseDecimals(U256(pin.amount), pin.decimals)
    /\ pc' = "rendered"
    /\ UNCHANGED <<input, tx, nestedResult, result, err, pin, registry, goroutines, stack, scan>>

NextDecimals == Render

SpecDecimals == InitDecimals /\ [][NextDecimals]_vars

RECURSIVE Pow10(_)
Pow10(n) == IF n = 0 THEN 1 ELSE 10 * Pow10(n - 1)

\* The digit of 10^k in a number below 10^9.
DigitAt(n, k) == IF k > 8 THEN 0 ELSE (n \div Pow10(k)) % 10

\* The number of digits of a natural number (1 for 0).
RECURSIVE NumDigits(_)
NumDigits(n) == IF n < 10 THEN 1 ELSE 1 + NumDigits(n \div 10)

\* The integer part of amount / 10^decimals.
IntegerPart(amount, decimals) ==
    IF decimals > 8 THEN 0 ELSE amount \div Pow10(decimals)

\* A natural number in decimal with a comma before every group of three
\* digits counted from the right, none in front.
Grouped(n) ==
    LET len == NumDigits(n) IN
    Concat([i \in 1..len |->
               (IF i > 1 /\ (len - i + 1) % 3 = 0 THEN <<",">> ELSE <<>>)
                   \o <<DigitChar(DigitAt(n, len - i))>>])

\* The decimals digits of the fraction of amount / 10^decimals.
Fraction(amount, decimals) ==
    [i \in 1..decimals |-> DigitChar(DigitAt(amount, decimals - i))]

\* The exact rendering of amount / 10^decimals.
Rendering(amount, decimals) ==
    LET f == Fraction(amount, decimals)
        nonZero == { i \in 1..decimals : f[i] # "0" }
    IN  IF decimals = 0
        THEN Grouped(amount)
        ELSE IF nonZero = {}
        THEN Grouped(IntegerPart(amount, decimals)) \o <<".", "0", "0">>
        ELSE Grouped(IntegerPart(amount, decimals)) \o <<".">>
                 \o SubSeq(f, 1, CHOOSE i \in nonZero : \A j \in nonZero : j <= i)

\* C18: for an amount >= 0, ParseDecimals renders amount / 10^decimals
\* exactly: the integer part with a comma every three digits from the right
\* and none in front, then, when decimals > 0, the fraction without its
\* trailing zeros, an all-zero fraction as exactly two zeros (1000000 with 6
\* decimals is "1.00"), an amount below one unit as "0." and zero padding
\* (123 with 6 is "0.000123"); with no decimals there is no decimal point.
C18_ParseDecimalsExact ==
    pc = "rendered" =>
        /\ pout = Rendering(pin.amount, pin.decimals)
        /\ pout[1] # ","
        /\ pin.decimals = 0 => \A i \in DOMAIN pout : pout[i] # "."
        /\ pin = [amount |-> 1000000, decimals |-> 6] => pout = <<"1", ".", "0", "0">>
        /\ pin = [amount |-> 123, decimals |-> 6] =>
               pout = <<"0", ".", "0", "0", "0", "1", "2", "3">>
        /\ pin = [amount |-> 1234567, decimals |-> 0] =>
               pout = <<"1", ",", "2", "3", "4", ",", "5", "6", "7">>

C18_Witness ==
    /\ pc = "rendered"
    /\ pin = [amount |-> 12345678, decimals |-> 4]
    /\ pout = <<"1", ",", "2", "3", "4", ".", "5", "6", "7", "8">>

(***************************************************************************)
(* VerifyTransaction under other registry contents: C16                    *)
(***************************************************************************)
\* Registries without any entry.
EmptyRegistry ==
    [KnownContracts |-> [chainID \in {MainnetChainID, OPMainnetChainID} |-> {}],
     MulticallAddresses |-> [chainID \in {MainnetChainID, OPMainnetChainID} |-> {}],
     KnownFunctions |-> {}]

\* Registries with other names and decimals, no batching contract and no
\* batching function.
OtherRegistry ==
    [KnownContracts |->
         [chainID \in {MainnetChainID, OPMainnetChainID} |->
              { ContractInfo(USDCMainnetAddress, "US DOLLAR COIN", 2),
                ContractInfo(Recipient, "RECIPIENT", 0) }],
     MulticallAddresses |-> [chainID \in {MainnetChainID, OPMainnetChainID} |-> {}],
     KnownFunctions |-> ElementaryFunctions]

RegistryVariants == {StartupRegistry, EmptyRegistry, OtherRegistry}

RegistryInputs ==
    { t \in Inputs : t.Nonce = 0 /\ t.Value = 0 /\ t.Operation = 0 /\ t.SafeTxGas = 0 }

InitRegistry ==
    /\ input \in RegistryInputs
    /\ registry \in RegistryVariants
    /\ tx = input
    /\ pc = "start"
    /\ nestedResult = Nil
    /\ result = Nil
    /\ err = ""
    /\ pin = Nil
    /\ pout = Nil
    /\ goroutines = <<>>
    /\ stack = <<>>
    /\ scan = Nil

SpecRegistry == InitRegistry /\ [][Next]_vars

\* The thirteen fields of a transaction, without nested block and call tree.
FieldsOnly(t) == [t EXCEPT !.Nested = Nil, !.Call = ZeroCall]

\* The three hashes as functions of the thirteen fields alone.
HashesOfFields(t) ==
    [DomainHash |-> CalculateDomainHash(FieldsOnly(t)),
     MessageHash |-> CalculateMessageHash(FieldsOnly(t)),
     ApproveHash |-> CalculateApproveHash(FieldsOnly(t))]

HashesOfResult(r) ==
    [DomainHash |-> Ok(r.DomainHash),
     MessageHash |-> Ok(r.MessageHash),
     ApproveHash |-> Ok(r.ApproveHash)]

\* C16: the three hashes of a result depend on the fields of the
\* transaction only: whatever the contents of the contract and function
\* registries, and so whatever the decoded call tree, names and rescaled
\* amounts, they are the hashes the thirteen fields alone determine, hence
\* identical between two verifications of the same transaction.
C16_HashesIgnoreRegistries ==
    Succeeded =>
        /\ HashesOfResult(result) =
              HashesOfFields(Stripped(IF Wrapped THEN Substituted(input) ELSE input))
        /\ Wrapped =>
              HashesOfResult(result.NestedResult) = HashesOfFields(Stripped(input))

\* A token transfer that the empty registries leave undecoded.
C16_Witness ==
    /\ Succeeded
    /\ registry = EmptyRegistry
    /\ input = T1
    /\ result.Call.FunctionName = "unknown"
    /\ result.Call.TargetName = ""
    /\ HexToHash(result.ApproveHash) = HexToHash(CalculateApproveHash(T1).v)

(***************************************************************************)
(* Concurrent calls of VerifyTransaction on the shared registries: C20     *)
(***************************************************************************)
NumGoroutines == 2

\* The transactions the concurrent calls verify: a token transfer, the same
\* wrapped in an approval, one with a version that does not parse, and two
\* batches.
ConcurrentInputs ==
    { T1,
      [T1 EXCEPT !.Nested = Nested(Prefixed("eth", SafeB), Version(1, 4, 1), 0,
                                    HexEncode0x(EncApproveHash(P1)), 0, T1.Safe)],
      [T1 EXCEPT !.SafeVersion = BadVersion],
      SafeTransaction(Prefixed("oeth", SafeA), Version(1, 3, 0), OPMainnetChainID,
                      AddressHex(Multicall3Address), 0, HexEncode0x(SkippingBatchData),
                      0, 1, Nil),
      SafeTransaction(AddressHex(SafeA), Version(1, 3, 0), MainnetChainID,
                      Prefixed("eth", SafeMultisendAddress), 0,
                      HexEncode0x(RefusedBatchData), 1, 0, Nil) }

\* The locals of a call of VerifyTransaction(t) at its entry.
CallOf(t) ==
    [pc |-> "start", input |-> t, tx |-> t, nestedResult |-> Nil, result |-> Nil,
     err |-> ""]

InitConcurrent ==
    /\ goroutines \in [1..NumGoroutines -> { CallOf(t) : t \in ConcurrentInputs }]
    /\ registry = StartupRegistry
    /\ input = Nil /\ tx = Nil /\ nestedResult = Nil /\ result = Nil /\ err = ""
    /\ pc = "concurrent"
    /\ pin = Nil
    /\ pout = Nil
    /\ stack = <<>>
    /\ scan = Nil

\* A verification that records the target it has seen in KnownContracts.
RegistryAfterVerifyCaching(reg, t) ==
    [reg EXCEPT !.KnownContracts =
        [c \in DOMAIN reg.KnownContracts |->
            IF c = t.Chain
            THEN reg.KnownContracts[c]
                     \cup {ContractInfo(HexToAddress(StripChainPrefix(t.To)), "SEEN", 0)}
            ELSE reg.KnownContracts[c]]]

\* The registries after verifyTransactionInternal(t) has run on the
\* registries reg: no statement of the verification assigns to
\* KnownContracts, MulticallAddresses or KnownFunctions.
RegistryAfterVerify(reg, t) == reg

\* Lines 73-83 on the locals c of a call.
CallAfterInner(c, inner) ==
    CASE inner.st = "panic" -> [c EXCEPT !.pc = "panicked"]
      [] inner.st = "err" ->
           [c EXCEPT !.pc = "done", !.err = "failed to verify nested transaction"]
      [] inner.st = "ok" ->
           [c EXCEPT !.pc = "main", !.nestedResult = inner.res, !.tx = Substituted(c.tx)]

\* Lines 88-95 on the locals c of a call.
CallAfterMain(c, main) ==
    CASE main.st = "panic" -> [c EXCEPT !.pc = "panicked"]
      [] main.st = "err" -> [c EXCEPT !.pc = "done", !.err = main.msg]
      [] main.st = "ok" ->
           [c EXCEPT !.pc = "done",
                     !.result = [main.res EXCEPT !.NestedResult = c.nestedResult]]

\* Lines 68-84 in the call g.
GoCheckNested(g) ==
    /\ goroutines[g].pc = "start"
    /\ IF goroutines[g].tx.Nested # Nil
       THEN /\ goroutines' =
                 [goroutines EXCEPT
                     ![g] = CallAfterInner(goroutines[g],
                                           InnerVerification(goroutines[g].tx))]
            /\ registry' = RegistryAfterVerify(registry, goroutines[g].tx)
       ELSE /\ goroutines' = [goroutines EXCEPT ![g].pc = "main"]
            /\ UNCHANGED registry
    /\ UNCHANGED <<input, pc, tx, nestedResult, result, err, pin, pout, stack, scan>>

\* Lines 86-95 in the call g.
GoVerifyMain(g) ==
    /\ goroutines[g].pc = "main"
    /\ goroutines' =
          [goroutines EXCEPT
              ![g] = CallAfterMain(goroutines[g],
                                   verifyTransactionInternal(goroutines[g].tx))]
    /\ registry' = RegistryAfterVerify(registry, goroutines[g].tx)
    /\ UNCHANGED <<input, pc, tx, nestedResult, result, err, pin, pout, stack, scan>>

NextConcurrent ==
    \E g \in 1..NumGoroutines : GoCheckNested(g) \/ GoVerifyMain(g)

SpecConcurrent == InitConcurrent /\ [][NextConcurrent]_vars

\* What VerifyTransaction(t) returns when it runs alone.
AloneMain(nested, main) ==
    CASE main.st = "panic" -> [st |-> "panic"]
      [] main.st = "err" -> [st |-> "returned", err |-> main.msg, result |-> Nil]
      [] main.st = "ok" ->
           [st |-> "returned", err |-> "",
            result |-> [main.res EXCEPT !.NestedResult = nested]]

AloneNested(t, inner) ==
    CASE inner.st = "panic" -> [st |-> "panic"]
      [] inner.st = "err" ->
           [st |-> "returned", err |-> "failed to verify nested transaction",
            result |-> Nil]
      [] inner.st = "ok" ->
           AloneMain(inner.res, verifyTransactionInternal(Substituted(t)))

Alone(t) ==
    IF t.Nested # Nil
    THEN AloneNested(t, verifyTransactionInternal(t))
    ELSE AloneMain(Nil, verifyTransactionInternal(t))

Returned(c) == [st |-> "returned", err |-> c.err, result |-> c.result]

HasRawData(node) == node.RawData # EmptyStr
HasParsedData(node) == node.ParsedData # Nil

\* Every node of the tree under node carries exactly one of the two.
RECURSIVE ExactlyOneEverywhere(_)
ExactlyOneEverywhere(node) ==
    /\ HasRawData(node) # HasParsedData(node)
    /\ \A i \in DOMAIN node.SubCalls : ExactlyOneEverywhere(node.SubCalls[i])

\* C21: every CallNode of a decoded call tree, at every depth, carries
\* exactly one of rawData or parsed arguments, never both and never
\* neither, the nodes that carry subCalls included.
C21_ExactlyOneOfRawOrParsed ==
    pc = "parsed" /\ pout.st = "ok" => ExactlyOneEverywhere(pout.call)

\* Calldata of fewer than four bytes behind its "0x".
ShortCalldata(data) == StrLen(TrimPrefix0x(data)) < 8

\* C22: for calldata that is empty ("" or "0x") or shorter than four bytes
\* the decoder returns, without error, a node with functionName "unknown"
\* whose rawData is the calldata string exactly as it was given.
C22_ShortCalldataKeptAsGiven ==
    pc = "parsed" /\ ShortCalldata(pin.data) =>
        /\ pout.st = "ok"
        /\ pout.call.FunctionName = "unknown"
        /\ pout.call.RawData = pin.data

(***************************************************************************)
(* A subcall that fails to decode: C23                                     *)
(***************************************************************************)
\* The decode of element c of a batch taken alone.
ElementDecode(c) ==
    ParseTransactionData(AddressHex(c.target), HexEncode0x(c.callData), pin.chainID)

\* The call nodes of the elements of calls that decode, in their order.
DecodedElements(calls) ==
    LET decodes == [i \in DOMAIN calls |-> ElementDecode(calls[i])]
        kept == SelectSeq(decodes, LAMBDA d : d.st = "ok")
    IN  [i \in DOMAIN kept |-> kept[i].call]

\* The input is the batch of calls sent to Multicall3 on a chain that lists it.
IsBatchOf(calls) ==
    /\ ToLower(pin.to) = ToLower(AddressHex(Multicall3Address))
    /\ ToLower(pin.to) \in MulticallAddresses(pin.chainID)
    /\ pin.data \in { HexEncode0x(EncAggregate3(calls)),
                      HexEncode0x(EncAggregate3Value(calls)) }

DeclaresMoreThan(word, n) == ~IsSmall(word) \/ SmallVal(word) > n

IsLengthCase(c) ==
    /\ pin.to = AddressHex(SafeMultisendAddress)
    /\ pin.chainID = MainnetChainID
    /\ pin.data = LengthData(c)

\* C24: for every value of a multiSend record's 32-byte big-endian length
\* field, values of 2^63 and more and of 2^64 and more included, the decode
\* loop either consumes exactly that many data bytes or, when fewer remain,
\* stops cleanly: it never crashes and never takes the length for a smaller
\* number than the one declared.
C24_LengthFieldHonoured ==
    pc = "parsed" =>
        \A c \in LengthCases :
            IsLengthCase(c) =>
                /\ pout.st = "ok"
                /\ IF DeclaresMoreThan(c.word, Len(c.data))
                   THEN pout.call.SubCalls = <<>>
                   ELSE /\ Len(pout.call.SubCalls) >= 1
                        /\ pout.call.SubCalls[1].RawData =
                               HexEncode0x(SubSeq(c.data, 1, SmallVal(c.word)))

(***************************************************************************)
(* ParseTransactionData call by call: the recursion through multiSend      *)
(***************************************************************************)
\* The bytes the loop of lines 576-616 walks when ParseTransactionData(to,
\* data, chainID) gets there (lines 289-363 and 563-574 pass), Nil when the
\* call returns before.
LoopStreamOf(to, chainID, found, parsed) ==
    IF ~found.ok
    THEN Fail
    ELSE IF ~parsed.ok
    THEN Fail
    ELSE IF ~(/\ ToLower(to) \in MulticallAddresses(chainID)
              /\ found.info.Name = "multiSend"
              /\ ToLower(to) \in { ToLower(AddressHex(SafeMultisendAddress)),
                                   ToLower(AddressHex(SafeMultisendCallOnly141)) }
              /\ found.info.Signature = SafeMultisendSig)
    THEN Fail
    ELSE IF \/ ~HasKey(parsed.v, <<"transactions">>)
            \/ parsed.v[<<"transactions">>].ty # "hex"
            \/ parsed.v[<<"transactions">>].s.pfx = 0
            \/ ~HexDecodeString(TrimPrefix0x(parsed.v[<<"transactions">>].s)).ok
    THEN Fail
    ELSE Ok(HexDecodeString(TrimPrefix0x(parsed.v[<<"transactions">>].s)).v)

LoopStream(to, data, chainID) ==
    IF StrLen(TrimPrefix0x(data)) < 8
    THEN Fail
    ELSE LoopStreamOf(to, chainID, LookupFunction(TrimPrefix0x(data)),
             parseArguments(LookupFunction(TrimPrefix0x(data)).info,
                            Prepend0x(TrimPrefix0x(data))))

\* An active call of ParseTransactionData: its arguments, the stream of its
\* multiSend loop (Fail when it has none), and the loop's pos and subcalls.
Frame(to, data, chainID) ==
    [to |-> to, data |-> data, chainID |-> chainID,
     stream |-> LoopStream(to, data, chainID), pos |-> 0, subcalls |-> <<>>]

\* The length field of the record at the loop position of frame f.
FrameLength(f) ==
    RecordLength(Slice(f.stream.v, f.pos + 53, f.pos + 85), f.pos + HeaderLen,
                 Len(f.stream.v))

\* The loop of frame f has a whole record in front of it.
AtRecord(f) ==
    /\ f.stream.ok
    /\ f.pos < Len(f.stream.v)
    /\ f.pos + HeaderLen <= Len(f.stream.v)
    /\ FrameLength(f).k = "take"

\* Line 609: the call the loop makes for that record.
SubcallFrame(f) ==
    Frame(AddressHex(Slice(f.stream.v, f.pos + 1, f.pos + 21)),
          HexEncode0x(Slice(f.stream.v, f.pos + HeaderLen,
                            f.pos + HeaderLen + FrameLength(f).n)),
          f.chainID)

\* What the call of frame f returns once its loop is over (or at once when
\* it has no loop).
FrameResult(f) ==
    IF ~f.stream.ok
    THEN ParseTransactionData(f.to, f.data, f.chainID)
    ELSE IF /\ f.pos < Len(f.stream.v)
            /\ f.pos + HeaderLen <= Len(f.stream.v)
            /\ FrameLength(f).k = "panic"
    THEN Panic
    ELSE Return(CallData(f.to, TargetName(f.to, f.chainID), "multiSend", EmptyStr,
                         Nil, f.subcalls))

\* Lines 610-615 in the calling frame f, once the subcall returned res.
Resumed(f, res) ==
    [f EXCEPT !.pos = f.pos + HeaderLen + FrameLength(f).n,
              !.subcalls = Append(f.subcalls, res.call)]

InitDepth ==
    /\ registry = StartupRegistry
    /\ pin \in NestingInputs \cup { i \in StreamInputs : i.stream.partial = <<>> }
    /\ stack = <<Frame(pin.to, pin.data, pin.chainID)>>
    /\ pc = "decoding"
    /\ pout = Nil
    /\ input = Nil /\ tx = Nil /\ nestedResult = Nil /\ result = Nil /\ err = ""
    /\ goroutines = <<>>
    /\ scan = Nil

\* Line 609: the loop of the innermost call calls ParseTransactionData on
\* the record in front of it.
CallSubcall ==
    /\ pc = "decoding"
    /\ AtRecord(stack[Len(stack)])
    /\ stack' = Append(stack, SubcallFrame(stack[Len(stack)]))
    /\ UNCHANGED <<input, pc, tx, nestedResult, result, err, pin, pout, registry,
                   goroutines, scan>>

\* The innermost call returns res: to the loop that called it, which goes
\* on (lines 610-615) or returns the error in its turn, or to the caller of
\* the outermost call.
ReturnWith(res) ==
    IF Len(stack) > 1 /\ res.st = "ok"
    THEN /\ stack' = SubSeq(stack, 1, Len(stack) - 2) \o
                         <<Resumed(stack[Len(stack) - 1], res)>>
         /\ UNCHANGED <<pc, pout>>
    ELSE /\ stack' = <<>>
         /\ pout' = res
         /\ pc' = "parsed"

ReturnFromCall ==
    /\ pc = "decoding"
    /\ ~AtRecord(stack[Len(stack)])
    /\ ReturnWith(FrameResult(stack[Len(stack)]))
    /\ UNCHANGED <<input, tx, nestedResult, result, err, pin, registry, goroutines, scan>>

NextDepth == CallSubcall \/ ReturnFromCall

SpecDepth == InitDepth /\ [][NextDepth]_vars

(***************************************************************************)
(* Depth of the recursion: C25                                             *)
(***************************************************************************)
\* The maximum depth of the claim: one less than the deepest nesting tried.
DepthLimit == MaxNesting - 1

\* The batches around the innermost active call.
Depth == IF stack = <<>> THEN 0 ELSE Len(stack) - 1

\* C25: recursive decoding is depth-bounded: decoding batches nested deeper
\* than a fixed maximum depth (DepthLimit, 16) returns an error instead of
\* recursing further, so that the recursion depth reached by
\* ParseTransactionData never exceeds it.
C25_DepthBounded ==
    /\ Depth <= DepthLimit
    /\ \A n \in (DepthLimit + 1)..MaxNesting :
          pc = "parsed" /\ pin.data = NestedBatch(n) => pout.st = "err"

(***************************************************************************)
(* The version of the outer Safe: C26                                      *)
(***************************************************************************)
\* The outer transaction with the outer Safe's own version.
OuterWithOwnVersion ==
    [OuterOfInput EXCEPT !.To = StripChainPrefix(@),
                         !.Safe = StripChainPrefix(@),
                         !.SafeVersion = input.Nested.SafeVersion]

\* C26: in Wrapped mode the outer result's domainHash and messageHash are
\* computed with the encoding and typehash selected by
\* nestedApproval.safeVersion (the outer Safe's own version), not by the
\* top-level safeVersion, also when the two versions fall on different
\* sides of a version boundary.
C26_OuterHashesFollowOuterVersion ==
    Succeeded /\ Wrapped =>
        /\ result.DomainHash = CalculateDomainHash(OuterWithOwnVersion).v
        /\ result.MessageHash = CalculateMessageHash(OuterWithOwnVersion).v

(***************************************************************************)
(* core/generate.go: building a transaction record from the Safe API       *)
(***************************************************************************)
\* A number as the API gives it: the text of its decimal digits.
DecimalText(n) == IF n < 10 THEN <<n>> ELSE <<n \div 10, n % 10>>

\* fmt.Sscanf(text, "%d", &v) on a variable that holds 0: the number the
\* digits spell, 0 when there is no digit.
RECURSIVE ScanDigits(_, _)
ScanDigits(text, acc) ==
    IF text = <<>> THEN acc ELSE ScanDigits(Tail(text), 10 * acc + Head(text))

Sscanf(text) == ScanDigits(text, 0)

\* A multisig transaction as the Safe transaction service returns it.
ApiTx(safe, to, value, data, operation, gas, nonce) ==
    [Safe |-> safe, To |-> to, Value |-> DecimalText(value), Data |-> data,
     Operation |-> operation, SafeTxGas |-> DecimalText(gas),
     BaseGas |-> DecimalText(gas), GasPrice |-> DecimalText(gas),
     GasToken |-> AddressHex(ZeroAddress), RefundReceiver |-> AddressHex(ZeroAddress),
     Nonce |-> DecimalText(nonce)]

\* The version the service reports for a Safe (fetchSafeVersion).
fetchSafeVersion(safeAddress) ==
    IF HexToAddress(safeAddress) = SafeB THEN Version(1, 4, 1) ELSE Version(1, 3, 0)

\* The largest nonce and amount the service holds.
MaxApiNumber == 11

ApiNumbers == {0, 1, MaxApiNumber}

\* What the outer transaction's data can be: an approveHash call, an
\* approveHash call one byte short, a token transfer.
OuterData ==
    { HexEncode0x(EncApproveHash(P1)),
      HexEncode0x(SubSeq(EncApproveHash(P1), 1, 35)),
      HexEncode0x(TransferData) }

\* The service holds a transaction outer of SafeB and a transaction inner
\* of SafeA, which it returns with status innerStatus when asked for the
\* hash that outer approves; entry is the function called, nonce the nonce
\* GenerateTransaction is called with (the one of outer).
GenerateInputs ==
    { [entry |-> entry,
       outer |-> ApiTx(AddressHex(SafeB), AddressHex(SafeA), 0, data, 0, 0, outerNonce),
       inner |-> ApiTx(AddressHex(SafeA), AddressHex(USDCMainnetAddress), value,
                       HexEncode0x(TransferData), 0, value, innerNonce),
       innerStatus |-> status,
       nonce |-> outerNonce,
       chainID |-> MainnetChainID] :
        entry \in {"GenerateTransaction", "FetchTransactionByHash"},
        data \in OuterData,
        outerNonce \in ApiNumbers,
        innerNonce \in ApiNumbers,
        value \in {0, MaxApiNumber},
        status \in {"200 OK", "404 Not Found"} }

InitGenerate ==
    /\ pin \in GenerateInputs
    /\ pc = "request"
    /\ tx = Nil
    /\ pout = Nil
    /\ err = ""
    /\ input = Nil /\ nestedResult = Nil /\ result = Nil
    /\ registry = StartupRegistry
    /\ goroutines = <<>>
    /\ stack = <<>>
    /\ scan = Nil

\* strings.HasPrefix(data, "0xd4d9bdcd")
IsApproveHashCall(data) ==
    /\ data.pfx = 1 /\ ~data.up
    /\ Len(data.bytes) >= 4
    /\ SubSeq(data.bytes, 1, 4) = ApproveHashSelector

\* generate.go 68-126 and 313-400: the outer transaction is fetched, with
\* the version of its Safe; an approveHash call of another length than 74
\* is an error.  The locals are kept in tx: the nonce is the parameter of
\* GenerateTransaction (by which the service was asked), or the nonce of
\* the transaction found by hash, parsed.
FetchOuter ==
    /\ pc = "request"
    /\ tx' = [content |-> pin.outer,
              nested |-> Nil,
              safeAddress |-> AddressHex(HexToAddress(pin.outer.Safe)),
              safeVersion |-> fetchSafeVersion(pin.outer.Safe),
              nonce |-> IF pin.entry = "GenerateTransaction"
                        THEN pin.nonce
                        ELSE Sscanf(pin.outer.Nonce)]
    /\ IF IsApproveHashCall(pin.outer.Data)
       THEN IF StrLen(pin.outer.Data) # 74
            THEN pc' = "failed" /\ err' = "invalid approveHash calldata length"
            ELSE pc' = "inner" /\ UNCHANGED err
       ELSE pc' = "build" /\ UNCHANGED err
    /\ UNCHANGED <<input, nestedResult, result, pin, pout, registry, goroutines, stack, scan>>

\* generate.go 128-196 and 401-453: the inner transaction is asked for; on
\* status 200 nested takes the outer transaction's fields and content the
\* inner one's; on another status nothing changes.
FetchInner ==
    /\ pc = "inner"
    /\ IF pin.innerStatus = "200 OK"
       THEN tx' = [tx EXCEPT
                !.nested = Nested(tx.safeAddress, tx.safeVersion, tx.nonce,
                                  pin.outer.Data, pin.outer.Operation, pin.outer.To),
                !.content = [tx.content EXCEPT
                                !.To = pin.inner.To,
                                !.Value = pin.inner.Value,
                                !.Data = pin.inner.Data,
                                !.Operation = pin.inner.Operation,
                                !.SafeTxGas = pin.inner.SafeTxGas,
                                !.BaseGas = pin.inner.BaseGas,
                                !.GasPrice = pin.inner.GasPrice,
                                !.GasToken = pin.inner.GasToken,
                                !.RefundReceiver = pin.inner.RefundReceiver],
                !.safeAddress = pin.inner.Safe,
                !.safeVersion = fetchSafeVersion(pin.inner.Safe)]
       ELSE UNCHANGED tx
    /\ pc' = "build"
    /\ UNCHANGED <<input, nestedResult, result, err, pin, pout, registry, goroutines,
                   stack, scan>>

\* generate.go 199-224 and 459-483: the record returned.
BuildRecord ==
    /\ pc = "build"
    /\ pout' = [Safe |-> tx.safeAddress,
                SafeVersion |-> tx.safeVersion,
                Chain |-> pin.chainID,
                To |-> tx.content.To,
                Value |-> Sscanf(tx.content.Value),
                Data |-> tx.content.Data,
                Operation |-> tx.content.Operation,
                SafeTxGas |-> Sscanf(tx.content.SafeTxGas),
                BaseGas |-> Sscanf(tx.content.BaseGas),
                GasPrice |-> Sscanf(tx.content.GasPrice),
                GasToken |-> tx.content.GasToken,
                RefundReceiver |-> tx.content.RefundReceiver,
                Nonce |-> tx.nonce,
                Nested |-> tx.nested,
                Call |-> ZeroCall]
    /\ pc' = "built"
    /\ UNCHANGED <<input, tx, nestedResult, result, err, pin, registry, goroutines,
                   stack, scan>>

NextGenerate == FetchOuter \/ FetchInner \/ BuildRecord

SpecGenerate == InitGenerate /\ [][NextGenerate]_vars

(***************************************************************************)
(* The record of an approveHash transaction: C27                           *)
(***************************************************************************)
\* The inner transaction was fetched successfully.
InnerFetched ==
    /\ pc = "built"
    /\ IsApproveHashCall(pin.outer.Data)
    /\ pin.innerStatus = "200 OK"

\* The inner transaction the service holds, as a SafeTransaction.
RealInner ==
    [Safe |-> pin.inner.Safe,
     SafeVersion |-> fetchSafeVersion(pin.inner.Safe),
     Chain |-> pin.chainID,
     To |-> pin.inner.To,
     Value |-> Sscanf(pin.inner.Value),
     Data |-> pin.inner.Data,
     Operation |-> pin.inner.Operation,
     SafeTxGas |-> Sscanf(pin.inner.SafeTxGas),
     BaseGas |-> Sscanf(pin.inner.BaseGas),
     GasPrice |-> Sscanf(pin.inner.GasPrice),
     GasToken |-> pin.inner.GasToken,
     RefundReceiver |-> pin.inner.RefundReceiver,
     Nonce |-> Sscanf(pin.inner.Nonce),
     Nested |-> Nil,
     Call |-> ZeroCall]

\* C27: when GenerateTransaction or FetchTransactionByHash fetches an
\* approveHash transaction and the inner transaction is fetched
\* successfully, every top-level field of the record, nonce included, is
\* the inner transaction's, and nested carries the outer transaction's
\* safe, version, nonce, data, operation and to; so the approval hash
\* computed from the record's top-level fields is the hash of the real
\* inner transaction.
C27_RecordIsInnerTransaction ==
    InnerFetched =>
        /\ pout.Safe = pin.inner.Safe
        /\ pout.To = pin.inner.To
        /\ DecimalText(pout.Value) = pin.inner.Value
        /\ pout.Data = pin.inner.Data
        /\ pout.Operation = pin.inner.Operation
        /\ DecimalText(pout.SafeTxGas) = pin.inner.SafeTxGas
        /\ DecimalText(pout.BaseGas) = pin.inner.BaseGas
        /\ DecimalText(pout.GasPrice) = pin.inner.GasPrice
        /\ pout.GasToken = pin.inner.GasToken
        /\ pout.RefundReceiver = pin.inner.RefundReceiver
        /\ DecimalText(pout.Nonce) = pin.inner.Nonce
        /\ pout.Nested = Nested(pin.outer.Safe, fetchSafeVersion(pin.outer.Safe),
                                Sscanf(pin.outer.Nonce), pin.outer.Data,
                                pin.outer.Operation, pin.outer.To)
        /\ CalculateApproveHash(pout) = CalculateApproveHash(RealInner)

(***************************************************************************)
(* core/scan.go: ScanQRCode, the camera server and its /result handlers    *)
(***************************************************************************)
\* The number of parts of the scan and the number of /result posts.
MaxParts == 2
MaxPosts == 3

\* The text of a number field of a part: its leading digits (as a number,
\* none when the text starts with no digit) and what follows them.
NumberText(n) == [lead |-> <<n>>, rest |-> ""]
DigitsThenJunk(n) == [lead |-> <<n>>, rest |-> "x"]
NoNumber == [lead |-> <<>>, rest |-> "abc"]

\* parseInt(s): fmt.Sscanf(s, "%d", &n) reads the leading number and stops;
\* it fails when there is none.
parseInt(s) ==
    IF s.lead = <<>> THEN [n |-> 0, err |-> TRUE] ELSE [n |-> s.lead[1], err |-> FALSE]

\* The data of part i of the scan.
PartData(i) == <<"part", i>>

\* "PART:index:total:data" split at its colons.
PartText(index, total, data) == <<"PART", index, total, data>>

\* The posts tried, numbered: the parts of the scan, a part with index 0, a
\* part with an index beyond total, a text with three fields, a part whose
\* index is no number, a part whose index is a number followed by a letter.
PostsTried ==
    [i \in 1..MaxParts |-> PartText(NumberText(i), NumberText(MaxParts), PartData(i))]
      \o << PartText(NumberText(0), NumberText(MaxParts), PartData(1)),
            PartText(NumberText(MaxParts + 1), NumberText(MaxParts), PartData(1)),
            <<"PART", NumberText(1), NumberText(MaxParts)>>,
            PartText(NoNumber, NumberText(MaxParts), PartData(1)),
            PartText(DigitsThenJunk(1), NumberText(MaxParts), <<"other">>) >>

\* The posts of a run, one for each handler: any choice of MaxPosts of the
\* posts tried, repeats included (their order of arrival is left to the
\* scheduling of the handlers).
PostChoices ==
    { c \in [1..MaxPosts -> DOMAIN PostsTried] :
        \A h \in 1..(MaxPosts - 1) : c[h] <= c[h + 1] }

\* A handler that has not been called, holding the text it will get.
IdleHandler(text) == [st |-> "idle", text |-> text, val |-> <<>>, resp |-> ""]

\* ScanQRCode is called; startup says whether template.ParseFS or
\* ListenAndServe fails.
InitScan ==
    /\ scan \in
          { [startup |-> "ok", main |-> "start", ret |-> Nil, server |-> "none",
             wgDone |-> FALSE, qrParts |-> <<>>, crashed |-> FALSE,
             handlers |-> [h \in 1..MaxPosts |-> IdleHandler(PostsTried[c[h]])]] :
               c \in PostChoices }
          \cup
          { [startup |-> f, main |-> "start", ret |-> Nil, server |-> "none",
             wgDone |-> FALSE, qrParts |-> <<>>, crashed |-> FALSE,
             handlers |-> [h \in 1..MaxPosts |-> IdleHandler(PostsTried[1])]] :
               f \in {"template", "listen"} }
    /\ pc = "scan"
    /\ input = Nil /\ tx = Nil /\ nestedResult = Nil /\ result = Nil /\ err = ""
    /\ pin = Nil
    /\ pout = Nil
    /\ registry = StartupRegistry
    /\ goroutines = <<>>
    /\ stack = <<>>

ScanOnly == <<input, pc, tx, nestedResult, result, err, pin, pout, registry, goroutines,
              stack>>

Running == pc = "scan" /\ ~scan.crashed

\* Lines 21-31: the channels are made, the server goroutine is started and
\* ScanQRCode waits on the WaitGroup.
StartServer ==
    /\ Running /\ scan.main = "start"
    /\ scan' = [scan EXCEPT !.main = "wg.Wait", !.server = "template"]
    /\ UNCHANGED ScanOnly

\* Lines 55-59 and 61-157: the template is parsed; on failure the goroutine
\* sends the error on errChan (it blocks until someone receives), otherwise
\* it registers the handlers and calls wg.Done().
ParseTemplate ==
    /\ Running /\ scan.server = "template"
    /\ IF scan.startup = "template"
       THEN scan' = [scan EXCEPT !.server = "errChan <-"]
       ELSE scan' = [scan EXCEPT !.server = "listen", !.wgDone = TRUE]
    /\ UNCHANGED ScanOnly

\* Lines 160-165: ListenAndServe serves, or fails and the goroutine sends
\* the error on errChan.
ListenAndServe ==
    /\ Running /\ scan.server = "listen"
    /\ IF scan.startup = "listen"
       THEN scan' = [scan EXCEPT !.server = "errChan <-"]
       ELSE scan' = [scan EXCEPT !.server = "serving"]
    /\ UNCHANGED ScanOnly

\* Lines 31-40: wg.Wait() returns, the browser is opened, ScanQRCode enters
\* its select.
WaitReturns ==
    /\ Running /\ scan.main = "wg.Wait" /\ scan.wgDone
    /\ scan' = [scan EXCEPT !.main = "select"]
    /\ UNCHANGED ScanOnly

\* Lines 45-46: the select receives the server's error.
ReceiveError ==
    /\ Running /\ scan.main = "select" /\ scan.server = "errChan <-"
    /\ scan' = [scan EXCEPT !.main = "returned", !.ret = [err |-> "server error"],
                            !.server = "exited"]
    /\ UNCHANGED ScanOnly

\* The browser posts the text of handler h to /result.
Post(h) ==
    /\ Running /\ scan.server = "serving"
    /\ scan.handlers[h].st = "idle"
    /\ scan' = [scan EXCEPT !.handlers[h].st = "called"]
    /\ UNCHANGED ScanOnly

\* len(parts) != 4 || err1 != nil || err2 != nil || partIndex < 1 ||
\* partIndex > totalParts
Rejected(text) ==
    \/ Len(text) # 4
    \/ parseInt(text[2]).err
    \/ parseInt(text[3]).err
    \/ parseInt(text[2]).n < 1
    \/ parseInt(text[2]).n > parseInt(text[3]).n

\* qrParts[partIndex] = data
Stored(qrParts, text) ==
    [i \in DOMAIN qrParts \cup {parseInt(text[2]).n} |->
        IF i = parseInt(text[2]).n THEN text[4] ELSE qrParts[i]]

\* Another handler is reading qrParts without the mutex (lines 130-132).
ReadInProgress(h) ==
    \E g \in DOMAIN scan.handlers : g # h /\ scan.handlers[g].st = "combining"

\* Lines 101-126 and 139-143 for a part: the text is split and checked; a
\* part that passes is stored under the mutex and the handler goes on to
\* combine when len(qrParts) == totalParts, or answers with the progress.
HandlePart(h) ==
    /\ Running /\ scan.handlers[h].st = "called"
    /\ IF Rejected(scan.handlers[h].text)
       THEN scan' = [scan EXCEPT !.handlers[h].st = "done",
                                 !.handlers[h].resp = "success:false"]
       ELSE LET stored == Stored(scan.qrParts, scan.handlers[h].text)
                complete == Cardinality(DOMAIN stored) =
                                parseInt(scan.handlers[h].text[3]).n
            IN  \/ scan' = [scan EXCEPT
                       !.qrParts = stored,
                       !.handlers[h].st = IF complete THEN "combining" ELSE "done",
                       !.handlers[h].resp = IF complete THEN "" ELSE "complete:false"]
                \* a write of the map while another goroutine reads it is
                \* a data race: the runtime may stop the process
                \/ /\ ReadInProgress(h)
                   /\ scan' = [scan EXCEPT !.crashed = TRUE]
    /\ UNCHANGED ScanOnly

\* Lines 128-132: the parts 1..totalParts are read from qrParts (a missing
\* one reads as "") and joined.
Combined(qrParts, total) ==
    Concat([i \in 1..total |-> IF i \in DOMAIN qrParts THEN qrParts[i] ELSE <<>>])

Combine(h) ==
    /\ Running /\ scan.handlers[h].st = "combining"
    /\ scan' = [scan EXCEPT
           !.handlers[h].st = "resultChan <-",
           !.handlers[h].val = Combined(scan.qrParts,
                                        parseInt(scan.handlers[h].text[3]).n)]
    /\ UNCHANGED ScanOnly

\* Lines 43-44 and 135-137: the handler's send on resultChan meets the
\* receive of the select; ScanQRCode returns the text and the handler
\* answers.
Deliver(h) ==
    /\ Running /\ scan.handlers[h].st = "resultChan <-"
    /\ scan.main = "select"
    /\ scan' = [scan EXCEPT !.main = "returned",
                            !.ret = [result |-> scan.handlers[h].val],
                            !.handlers[h].st = "done",
                            !.handlers[h].resp = "complete:true"]
    /\ UNCHANGED ScanOnly

\* Some goroutine of the server can take a step by itself.
ServerBusy ==
    \/ scan.server \in {"template", "listen", "errChan <-"}
    \/ \E h \in DOMAIN scan.handlers :
          scan.handlers[h].st \in {"called", "combining", "resultChan <-"}

\* Lines 47-48: time.After(120 * time.Second) fires; the steps of the
\* goroutines take no time against it.
Timeout ==
    /\ Running /\ scan.main = "select" /\ ~ServerBusy
    /\ scan' = [scan EXCEPT !.main = "returned",
                            !.ret = [err |-> "timeout waiting for QR code"]]
    /\ UNCHANGED ScanOnly

MainStep == StartServer \/ WaitReturns \/ ReceiveError

ServerStep == ParseTemplate \/ ListenAndServe

HandlerStep(h) == HandlePart(h) \/ Combine(h) \/ Deliver(h)

NextScan ==
    \/ MainStep
    \/ ServerStep
    \/ Timeout
    \/ \E h \in 1..MaxPosts : Post(h) \/ HandlerStep(h)

\* Every goroutine that can run does run, and the timer fires; the browser
\* may post or not.
SpecScan ==
    /\ InitScan /\ [][NextScan]_vars
    /\ WF_vars(MainStep)
    /\ WF_vars(ServerStep)
    /\ WF_vars(Timeout)
    /\ \A h \in 1..MaxPosts : WF_vars(HandlerStep(h))

(***************************************************************************)
(* ScanQRCode returns: C28                                                 *)
(***************************************************************************)
ScanReturned == scan.main = "returned"

\* C28: ScanQRCode always eventually returns, with the scanned text, an
\* error, or the timeout; when the camera server fails to start (the
\* template does not parse or listening fails) the error reaches the caller
\* instead of ScanQRCode and the server goroutine blocking on each other
\* forever.
C28_ScanEventuallyReturns ==
    /\ <>ScanReturned
    /\ [](ScanReturned /\ scan.startup # "ok" => scan.ret = [err |-> "server error"])

(***************************************************************************)
(* Concurrent posts of a multi-part scan: C29                              *)
(***************************************************************************)
\* The indices of the parts whose handler has stored them.
Received ==
    { parseInt(scan.handlers[h].text[2]).n :
        h \in { g \in DOMAIN scan.handlers :
                  /\ scan.handlers[g].st \notin {"idle", "called"}
                  /\ scan.handlers[g].resp # "success:false" } }

\* The handler of a malformed or out-of-range part leaves qrParts alone.
RejectsLeaveParts ==
    \A h \in 1..MaxPosts :
        /\ scan.handlers[h].st = "called"
        /\ scan.handlers[h].text \in
               { PostsTried[k] : k \in (MaxParts + 1)..Len(PostsTried) }
        /\ scan'.handlers[h].st # "called"
        => /\ scan'.qrParts = scan.qrParts
           /\ scan'.handlers[h].resp = "success:false"

\* C29: under any interleaving of the /result posts of a multi-part scan
\* (any order, duplicates and re-posts included) ScanQRCode receives one
\* result, only once all indices 1..total have been received, equal to the
\* data of the parts 1..total joined in index order; malformed parts and
\* parts with an index outside 1..total are rejected and leave the stored
\* parts unchanged; no request handler stays blocked forever.
C29_MultiPartScan ==
    /\ [](ScanReturned /\ "result" \in DOMAIN scan.ret =>
            /\ 1..MaxParts \subseteq Received
            /\ scan.ret.result = Concat([i \in 1..MaxParts |-> PartData(i)]))
    /\ [][RejectsLeaveParts]_vars
    /\ \A h \in 1..MaxPosts :
          (scan.handlers[h].st = "called") ~> (scan.handlers[h].st = "done")

(***************************************************************************)
(* core/web/core/hashing.js: the hashes of the web page                    *)
(***************************************************************************)
\* core/web/core/constants.js
DOMAIN_SEPARATOR_TYPEHASH ==
    <<71, 231, 149, 52, 162, 69, 149, 46, 139, 22, 137, 58, 51, 107, 133, 163,
      217, 234, 159, 168, 197, 115, 243, 216, 3, 175, 185, 42, 121, 70, 146, 24>>
SAFE_TX_TYPEHASH ==
    <<187, 131, 16, 212, 134, 54, 141, 182, 189, 111, 132, 148, 2, 253, 215, 58,
      213, 61, 49, 107, 90, 75, 38, 68, 173, 110, 254, 15, 148, 18, 134, 216>>

\* calculateDomainHash(tx): the keccak256 of the ABI encoding of
\* (bytes32, uint256, address).
calculateDomainHash(t) ==
    HashHex(Keccak(<<Word(DOMAIN_SEPARATOR_TYPEHASH),
                     IntWord(t.Chain),
                     AddressWord(HexToAddress(t.Safe))>>))

\* calculateMessageHash(tx)
calculateMessageHash(t) ==
    LET dataHash == Keccak(FromHex(t.Data))
    IN  HashHex(Keccak(<<Word(SAFE_TX_TYPEHASH),
                         AddressWord(HexToAddress(t.To)),
                         IntWord(t.Value),
                         dataHash,
                         IntWord(t.Operation),
                         IntWord(t.SafeTxGas),
                         IntWord(t.BaseGas),
                         IntWord(t.GasPrice),
                         AddressWord(HexToAddress(t.GasToken)),
                         AddressWord(HexToAddress(t.RefundReceiver)),
                         IntWord(t.Nonce)>>))

\* calculateApproveHash(tx)
calculateApproveHash(t) ==
    HashHex(Keccak(<<Word(Prefix1901),
                     HexToHash(calculateDomainHash(t)),
                     HexToHash(calculateMessageHash(t))>>))

(***************************************************************************)
(* The web page against the command line: C30                              *)
(***************************************************************************)
\* C30: for every transaction and every safeVersion the web
\* calculateDomainHash and calculateMessageHash select the same typehash
\* and the same tuple encoding as the Go CalculateDomainHash and
\* CalculateMessageHash, so that the web page and the command line compute
\* equal domain, message and approval hashes for the same record.
C30_WebHashesEqualGo ==
    pc = "hashed" =>
        /\ pout.fn = "domain" => pout.r = Ok(calculateDomainHash(pin))
        /\ pout.fn = "message" => pout.r = Ok(calculateMessageHash(pin))
        /\ CalculateApproveHash(pin) = Ok(calculateApproveHash(pin))
====
